---- MODULE Spec2Model ----
(***************************************************************************)
(* OCR-result correction and spreadsheet reconciliation engine.            *)
(*                                                                         *)
(* Model of GoogleSheetsService.saveToPersonalSheets (batch orchestrator   *)
(* and per-worker row reconciler) against a store of worker sheets, and of *)
(* FuzzyMatchService (tiered name / product resolution).                   *)
(*                                                                         *)
(* Every string of the program is a sequence of one-token strings, so that *)
(* trim, split, parseInt and string formatting are computed, not assumed.  *)
(* A JavaScript array index i is the TLA+ index i + 1.                     *)
(***************************************************************************)
EXTENDS Integers, Sequences, FiniteSets, TLC

(***************************************************************************)
(* Bounds of the model                                                     *)
(***************************************************************************)
\* rows of a sheet grid that the model keeps
GridRows == 3
\* list entries (packaging + machine-operation) of one batch submission
MaxEntries == 2
\* saveToPersonalSheets calls in a behaviour of the one-worker specification
MaxSeqCalls == 2

(***************************************************************************)
(* Strings                                                                 *)
(***************************************************************************)
Blank == <<>>

DigitChars == <<"0", "1", "2", "3", "4", "5", "6", "7", "8", "9">>

IsDigit(c) == \E n \in 1..10 : DigitChars[n] = c

DigitVal(c) == (CHOOSE n \in 1..10 : DigitChars[n] = c) - 1

\* String.prototype.trim / the whitespace class of /[\s\u3000]+/ ; the token
\* "U+3000" stands for the one full-width space character
IsSpace(c) == c \in {" ", "U+3000"}

RECURSIVE ParseInt(_)
\* parseInt(s, 10) of a string of decimal digits
ParseInt(s) ==
  IF s = <<>> THEN 0
  ELSE ParseInt(SubSeq(s, 1, Len(s) - 1)) * 10 + DigitVal(s[Len(s)])

RECURSIVE NatToStr(_)
\* template-literal formatting of a non-negative integer
NatToStr(n) ==
  IF n < 10 THEN <<DigitChars[n + 1]>>
  ELSE NatToStr(n \div 10) \o <<DigitChars[(n % 10) + 1]>>

\* n.toString().padStart(2, '0') of a non-negative integer
PadStart2(n) == IF n < 10 THEN <<"0">> \o NatToStr(n) ELSE NatToStr(n)

RECURSIVE Split(_, _)
\* s.split(sep) for a one-token separator
Split(s, sep) ==
  IF \A i \in 1..Len(s) : s[i] # sep THEN <<s>>
  ELSE LET k == CHOOSE i \in 1..Len(s) :
                  s[i] = sep /\ \A j \in 1..(i - 1) : s[j] # sep
       IN <<SubSeq(s, 1, k - 1)>> \o Split(SubSeq(s, k + 1, Len(s)), sep)

RECURSIVE TrimLeft(_)
TrimLeft(s) ==
  IF s # <<>> /\ IsSpace(s[1]) THEN TrimLeft(Tail(s)) ELSE s

RECURSIVE TrimRight(_)
TrimRight(s) ==
  IF s # <<>> /\ IsSpace(s[Len(s)]) THEN TrimRight(SubSeq(s, 1, Len(s) - 1)) ELSE s

Trim(s) == TrimRight(TrimLeft(s))

\* \d{lo,hi} : a run of lo..hi decimal digits
IsNum(seg, lo, hi) ==
  Len(seg) \in lo..hi /\ \A i \in 1..Len(seg) : IsDigit(seg[i])

RECURSIVE JoinWith(_, _)
\* parts.join(sep)
JoinWith(parts, sep) ==
  IF parts = <<>> THEN <<>>
  ELSE IF Len(parts) = 1 THEN parts[1]
  ELSE parts[1] \o sep \o JoinWith(Tail(parts), sep)

(***************************************************************************)
(* Dates and pay periods                                                   *)
(***************************************************************************)
\* variant of MonthDay that writes the day first
MonthDay_dayFirst(m, d) == NatToStr(ParseInt(d)) \o <<"/">> \o NatToStr(ParseInt(m))

\* `${month}/${day}` of two digit runs read with parseInt
MonthDay(m, d) == NatToStr(ParseInt(m)) \o <<"/">> \o NatToStr(ParseInt(d))

normalizeDate(dateStr) ==
  LET sl == Split(dateStr, "/")
      da == Split(dateStr, "-")
  IN IF Len(sl) = 2 /\ IsNum(sl[1], 1, 2) /\ IsNum(sl[2], 1, 2)
       THEN MonthDay(sl[1], sl[2])
     ELSE IF Len(sl) = 3 /\ IsNum(sl[1], 4, 4) /\ IsNum(sl[2], 1, 2) /\ IsNum(sl[3], 1, 2)
       THEN MonthDay(sl[2], sl[3])
     ELSE IF Len(da) = 3 /\ IsNum(da[1], 4, 4) /\ IsNum(da[2], 1, 2) /\ IsNum(da[3], 1, 2)
       THEN MonthDay(da[2], da[3])
     ELSE IF Len(sl) = 3 /\ IsNum(sl[1], 1, 2) /\ IsNum(sl[2], 1, 2) /\ IsNum(sl[3], 4, 4)
       THEN MonthDay(sl[1], sl[2])
     ELSE dateStr

InvalidDate == [valid |-> FALSE, year |-> 0, month |-> 0, day |-> 0]

\* new Date(workDate) for the YYYY/MM/DD strings the confirmation page
\* produces; any other string is an invalid date (getTime() is NaN)
ParseDate(workDate) ==
  LET sl == Split(workDate, "/")
  IN IF Len(sl) = 3 /\ IsNum(sl[1], 4, 4) /\ IsNum(sl[2], 1, 2) /\ IsNum(sl[3], 1, 2)
        /\ ParseInt(sl[2]) \in 1..12 /\ ParseInt(sl[3]) \in 1..31
       THEN [valid |-> TRUE, year |-> ParseInt(sl[1]),
             month |-> ParseInt(sl[2]), day |-> ParseInt(sl[3])]
       ELSE InvalidDate

\* variant of calculatePeriodYearMonth without the January branch
calculatePeriodYearMonth_noJanuary(date) ==
  IF date.day <= 20
    THEN [year |-> date.year, month |-> date.month - 1]
    ELSE [year |-> date.year, month |-> date.month]

calculatePeriodYearMonth(date) ==
  IF date.day <= 20
    THEN IF date.month = 1
           THEN [year |-> date.year - 1, month |-> 12]
           ELSE [year |-> date.year, month |-> date.month - 1]
    ELSE [year |-> date.year, month |-> date.month]

\* `${employeeName}_${year}<nen>${month.toString().padStart(2, '0')}<gatsu>`;
\* the tokens "nen" and "gatsu" stand for the year and month characters
ExpectedSheetName(employeeName, period) ==
  employeeName \o <<"_">> \o NatToStr(period.year) \o <<"nen">>
    \o PadStart2(period.month) \o <<"gatsu">>

(***************************************************************************)
(* Work times                                                              *)
(***************************************************************************)
\* String(n) of an integer
IntToStr(n) == IF n < 0 THEN <<"-">> \o NatToStr(0 - n) ELSE NatToStr(n)

\* the JavaScript remainder a % b (sign of the dividend), b > 0
JsRem(a, b) == IF a >= 0 THEN a % b ELSE 0 - ((0 - a) % b)

\* timeStr.split(':').map(Number) of an H:MM string of digit runs
timeToMinutes(timeStr) ==
  IF timeStr = Blank THEN 0
  ELSE LET parts == Split(timeStr, ":")
       IN ParseInt(parts[1]) * 60 + ParseInt(parts[2])

minutesToTime(minutes) ==
  LET hours == minutes \div 60
      mins  == JsRem(minutes, 60)
  IN IntToStr(hours) \o <<":">>
       \o (IF mins >= 0 /\ mins < 10 THEN <<"0">> \o IntToStr(mins) ELSE IntToStr(mins))

RECURSIVE InsertSlot(_, _)
\* place slot after every slot that does not start later (stable order)
InsertSlot(sorted, slot) ==
  IF sorted = <<>> THEN <<slot>>
  ELSE IF timeToMinutes(sorted[1].start) - timeToMinutes(slot.start) > 0
         THEN <<slot>> \o sorted
         ELSE <<sorted[1]>> \o InsertSlot(Tail(sorted), slot)

RECURSIVE SortSlots(_)
\* Array.prototype.sort by start time (a stable sort)
SortSlots(slots) ==
  IF slots = <<>> THEN <<>>
  ELSE InsertSlot(SortSlots(SubSeq(slots, 1, Len(slots) - 1)), slots[Len(slots)])

\* variant of TotalBreakMinutes that counts the gap before the last slot
\* only
TotalBreakMinutes_lastGap(sorted) ==
  IF Len(sorted) <= 1 THEN 0
  ELSE LET breakMinutes == timeToMinutes(sorted[Len(sorted)].start)
                             - timeToMinutes(sorted[Len(sorted) - 1].end)
       IN IF breakMinutes > 0 THEN breakMinutes ELSE 0

RECURSIVE TotalBreakMinutes(_)
\* sum of the positive gaps nextStart - currentEnd over adjacent slots
TotalBreakMinutes(sorted) ==
  IF Len(sorted) <= 1 THEN 0
  ELSE LET breakMinutes == timeToMinutes(sorted[2].start) - timeToMinutes(sorted[1].end)
       IN (IF breakMinutes > 0 THEN breakMinutes ELSE 0) + TotalBreakMinutes(Tail(sorted))

\* variant of calculateContinuousWorkTime that keeps the slots in the order
\* of the list
calculateContinuousWorkTime_unsorted(timeSlots) ==
  IF Len(timeSlots) <= 1
    THEN IF timeSlots = <<>>
           THEN [start |-> Blank, end |-> Blank, gap |-> 0]
           ELSE [start |-> timeSlots[1].start, end |-> timeSlots[1].end, gap |-> 0]
    ELSE LET sortedSlots ==
               SelectSeq(timeSlots, LAMBDA sl : sl.start # Blank /\ sl.end # Blank)
         IN IF sortedSlots = <<>>
              THEN [start |-> Blank, end |-> Blank, gap |-> 0]
              ELSE LET total == TotalBreakMinutes(sortedSlots)
                       lastEnd == timeToMinutes(sortedSlots[Len(sortedSlots)].end)
                   IN [start |-> sortedSlots[1].start,
                       end   |-> minutesToTime(lastEnd - total),
                       gap   |-> total]

calculateContinuousWorkTime(timeSlots) ==
  IF Len(timeSlots) <= 1
    THEN IF timeSlots = <<>>
           THEN [start |-> Blank, end |-> Blank, gap |-> 0]
           ELSE [start |-> timeSlots[1].start, end |-> timeSlots[1].end, gap |-> 0]
    ELSE LET sortedSlots ==
               SortSlots(SelectSeq(timeSlots, LAMBDA sl : sl.start # Blank /\ sl.end # Blank))
         IN IF sortedSlots = <<>>
              THEN [start |-> Blank, end |-> Blank, gap |-> 0]
              ELSE LET total == TotalBreakMinutes(sortedSlots)
                       lastEnd == timeToMinutes(sortedSlots[Len(sortedSlots)].end)
                   IN [start |-> sortedSlots[1].start,
                       end   |-> minutesToTime(lastEnd - total),
                       gap   |-> total]

\* lunch break 45 minutes, mid break 15 minutes, as H:MM
calculateRestTime(restInfo) ==
  LET totalMinutes == (IF restInfo.lunch THEN 45 ELSE 0) + (IF restInfo.mid THEN 15 ELSE 0)
  IN NatToStr(totalMinutes \div 60) \o <<":">> \o PadStart2(totalMinutes % 60)

\* slots.map(slot => `${start}-${end}`).join(', ')
SlotsText(slots) ==
  JoinWith([i \in 1..Len(slots) |-> slots[i].start \o <<"-">> \o slots[i].end], <<", ">>)

\* variant of createRemarks that lists the slots by start time
createRemarks_sorted(packagingRecord, machineRecord) ==
  LET p == IF packagingRecord # <<>> /\ Len(packagingRecord[1].slots) > 1
             THEN << <<"packaging: ">> \o SlotsText(SortSlots(packagingRecord[1].slots)) >>
             ELSE <<>>
      m == IF machineRecord # <<>> /\ Len(machineRecord[1].slots) > 1
             THEN << <<"machine: ">> \o SlotsText(SortSlots(machineRecord[1].slots)) >>
             ELSE <<>>
  IN JoinWith(p \o m, <<" | ">>)

\* An optional record (undefined or one record) is a sequence of length 0 or 1.
\* The tokens "packaging: " and "machine: " stand for the two work-type labels.
createRemarks(packagingRecord, machineRecord) ==
  LET p == IF packagingRecord # <<>> /\ Len(packagingRecord[1].slots) > 1
             THEN << <<"packaging: ">> \o SlotsText(packagingRecord[1].slots) >> ELSE <<>>
      m == IF machineRecord # <<>> /\ Len(machineRecord[1].slots) > 1
             THEN << <<"machine: ">> \o SlotsText(machineRecord[1].slots) >> ELSE <<>>
  IN JoinWith(p \o m, <<" | ">>)

(***************************************************************************)
(* Sheet rows: 16 positional columns A..P (1..16)                          *)
(***************************************************************************)
NumCols == 16

Cols == 1..NumCols

BlankRow == [c \in Cols |-> Blank]

\* the start / end / break / produced-count cells of one work type
ApplyRecord(row, record, colStart, colEnd, colRest, colCount) ==
  IF record = <<>> THEN row
  ELSE
    LET r == record[1]
        multi == Len(r.slots) > 1
        continuousTime == calculateContinuousWorkTime(r.slots)
        newStart == IF multi THEN continuousTime.start ELSE r.start
        newEnd   == IF multi THEN continuousTime.end ELSE r.end
        restTime == calculateRestTime(r.rest)
    IN [c \in Cols |->
          IF c = colStart /\ newStart # Blank THEN newStart
          ELSE IF c = colEnd /\ newEnd # Blank THEN newEnd
          ELSE IF c = colRest /\ restTime # Blank /\ restTime # <<"0", ":", "0", "0">> THEN restTime
          ELSE IF c = colCount /\ r.count # Blank THEN r.count
          ELSE row[c]]

\* product (C), packaging D E F H, machine J K L N, remarks (P); the
\* date (A) is never assigned
FillRow(row, header, packagingRecord, machineRecord) ==
  LET withProduct == IF header.product # Blank THEN [row EXCEPT ![3] = header.product] ELSE row
      withPackaging == ApplyRecord(withProduct, packagingRecord, 4, 5, 6, 8)
      withMachine == ApplyRecord(withPackaging, machineRecord, 10, 11, 12, 14)
      remarks == createRemarks(packagingRecord, machineRecord)
  IN IF remarks # Blank THEN [withMachine EXCEPT ![16] = remarks] ELSE withMachine

\* existingData is the result of getCurrentRowData
createMergedRowData(existingData, header, packagingRecord, machineRecord) ==
  FillRow(existingData, header, packagingRecord, machineRecord)

createNewRowData(header, packagingRecord, machineRecord) ==
  FillRow(BlankRow, header, packagingRecord, machineRecord)

\* variant of UpdateRanges whose first range is A-F instead of B-F
UpdateRanges_fromA(rowData) ==
  (IF \E c \in 1..6 : rowData[c] # Blank THEN 1..6 ELSE {})
    \cup (IF rowData[8] # Blank THEN {8} ELSE {})
    \cup (IF \E c \in 10..12 : rowData[c] # Blank THEN 10..12 ELSE {})
    \cup (IF rowData[14] # Blank THEN {14} ELSE {})
    \cup (IF rowData[16] # Blank THEN {16} ELSE {})

\* the columns named by the ranges of the batch update of an existing row:
\* B-F, H, J-L, N, P, each only when it holds a non-empty value
UpdateRanges(rowData) ==
  (IF \E c \in 2..6 : rowData[c] # Blank THEN 2..6 ELSE {})
    \cup (IF rowData[8] # Blank THEN {8} ELSE {})
    \cup (IF \E c \in 10..12 : rowData[c] # Blank THEN 10..12 ELSE {})
    \cup (IF rowData[14] # Blank THEN {14} ELSE {})
    \cup (IF rowData[16] # Blank THEN {16} ELSE {})

\* the same ranges, built again for the row appended below the date column
AppendRanges(rowData) ==
  (IF \E c \in 2..6 : rowData[c] # Blank THEN 2..6 ELSE {})
    \cup (IF rowData[8] # Blank THEN {8} ELSE {})
    \cup (IF \E c \in 10..12 : rowData[c] # Blank THEN 10..12 ELSE {})
    \cup (IF rowData[14] # Blank THEN {14} ELSE {})
    \cup (IF rowData[16] # Blank THEN {16} ELSE {})

\* values:batchUpdate with valueInputOption RAW: every cell of every range
\* takes the value sent for it, an empty string clears the cell
ApplyRanges(sheet, rowIndex, rowData, ranges) ==
  [sheet EXCEPT ![rowIndex] = [c \in Cols |-> IF c \in ranges THEN rowData[c] ELSE @[c]]]

\* the values of range A:A : column A down to its last non-empty cell
DateColumn(sheet) ==
  LET used == {r \in 1..GridRows : sheet[r][1] # Blank}
      last == IF used = {} THEN 0 ELSE CHOOSE r \in used : \A q \in used : q <= r
  IN [r \in 1..last |-> sheet[r][1]]

\* a scan that compares normalized values only
FindRow_normalizedOnly(values, workDate) ==
  LET normalizedWorkDate == normalizeDate(workDate)
      normal == {i \in 1..Len(values) :
                   values[i] # Blank /\ normalizeDate(values[i]) = normalizedWorkDate}
  IN IF normal # {} THEN CHOOSE i \in normal : \A j \in normal : i <= j ELSE 0

\* scan of column A: exact string first, then both sides normalized;
\* 0 stands for the result -1 (no row)
FindRow(values, workDate) ==
  LET exact == {i \in 1..Len(values) : values[i] = workDate}
      normalizedWorkDate == normalizeDate(workDate)
      normal == {i \in 1..Len(values) :
                   values[i] # Blank /\ normalizeDate(values[i]) = normalizedWorkDate}
      Min(S) == CHOOSE i \in S : \A j \in S : i <= j
  IN IF exact # {} THEN Min(exact)
     ELSE IF normal # {} THEN Min(normal)
     ELSE 0

(***************************************************************************)
(* FuzzyMatchService                                                       *)
(***************************************************************************)
\* length of a resolver input string (person names)
MaxStrLen == 3
\* length of a resolver input string (product names)
MaxProdLen == 2
\* length of a resolver candidate list
MaxCands == 2

\* entries of the employee column of the master data: bare last names,
\* last name and given name parted by a space or by the full-width space,
\* and names that differ from another in one or two letters
PersonPool ==
  {<<"a">>, <<"b">>, <<"a", " ", "b">>, <<"a", " ", "a">>, <<"b", " ", "a">>,
   <<"a", "U+3000", "b">>, <<"a", "b">>, <<"a", "a", "b">>, <<"b", "b", "b">>}

\* entries of the product column: two letter cases, a voiced katakana and
\* its unvoiced base
ProductPool ==
  {<<"a">>, <<"A">>, <<"ka">>, <<"ga">>, <<"a", "ka">>, <<"A", "ga">>}

\* length of the longest entry of the two pools
PoolLen ==
  LET lens == {Len(c) : c \in PersonPool \cup ProductPool}
  IN CHOOSE n \in lens : \A k \in lens : k <= n

Max(a, b) == IF a >= b THEN a ELSE b

Min3(a, b, c) == IF a <= b /\ a <= c THEN a ELSE IF b <= c THEN b ELSE c

RECURSIVE Factorial(_)
Factorial(n) == IF n <= 1 THEN 1 ELSE n * Factorial(n - 1)

\* A similarity or confidence x in [0, 1] is the integer x * SimScale; the
\* scale is a multiple of 100 and of every string length of the model, so
\* that 1 - distance / maxLength, 0.9 * x, 0.95 and 0.98 are exact.
SimScale ==
  100 * Factorial(Max(Max(MaxStrLen, MaxProdLen), PoolLen))

RECURSIVE LevRow(_, _, _, _)
\* one row of the distance matrix, filled left to right: prev is the row
\* above, cur the cells of this row so far (cur[1] is column 0)
LevRow(prev, cur, str1, ch) ==
  IF Len(cur) = Len(prev) THEN cur
  ELSE LET i == Len(cur)
           indicator == IF str1[i] = ch THEN 0 ELSE 1
       IN LevRow(prev,
                 Append(cur, Min3(cur[i] + 1, prev[i + 1] + 1, prev[i] + indicator)),
                 str1, ch)

RECURSIVE LevRows(_, _, _, _)
LevRows(prev, str1, str2, j) ==
  IF j > Len(str2) THEN prev
  ELSE LevRows(LevRow(prev, <<j>>, str1, str2[j]), str1, str2, j + 1)

calculateLevenshteinDistance(str1, str2) ==
  LevRows([i \in 1..(Len(str1) + 1) |-> i - 1], str1, str2, 1)[Len(str1) + 1]

calculateSimilarity(str1, str2) ==
  LET distance == calculateLevenshteinDistance(str1, str2)
      maxLength == Max(Len(str1), Len(str2))
  IN IF maxLength = 0 THEN SimScale
     ELSE SimScale - (SimScale * distance) \div maxLength

\* fullName.split(/[\s\u3000]+/)[0] || fullName
extractLastName(fullName) ==
  LET spaces == {i \in 1..Len(fullName) : IsSpace(fullName[i])}
      first == IF spaces = {} THEN fullName
               ELSE SubSeq(fullName, 1, (CHOOSE i \in spaces : \A j \in spaces : i <= j) - 1)
  IN IF first = Blank THEN fullName ELSE first

NoMatch == [null |-> TRUE, match |-> Blank, confidence |-> 0, type |-> "no_match",
            isLastNameMatch |-> FALSE]

Matched(candidate, confidence, type, isLastNameMatch) ==
  [null |-> FALSE, match |-> candidate, confidence |-> confidence, type |-> type,
   isLastNameMatch |-> isLastNameMatch]

\* candidates.find(pred) as an optional value; hits are the indexes of the
\* candidates that satisfy pred
FindFirst(candidates, hits) ==
  IF hits = {} THEN <<>>
  ELSE <<candidates[CHOOSE i \in hits : \A j \in hits : i <= j]>>

RECURSIVE ReduceBest(_, _, _)
\* candidates.reduce: a candidate replaces the best only on a strictly
\* greater score; scores[i] is the similarity computed for candidates[i]
ReduceBest(candidates, scores, best) ==
  IF candidates = <<>> THEN best
  ELSE LET similarity == scores[1]
       IN ReduceBest(Tail(candidates), Tail(scores),
                     IF similarity > best.confidence
                       THEN Matched(candidates[1], similarity, "fuzzy", FALSE)
                       ELSE best)

\* variant of findBestMatch that tries the last-name tier before the exact
\* tier
findBestMatch_lastNameFirst(input, candidates) ==
  IF input = Blank \/ candidates = <<>> THEN NoMatch
  ELSE
    LET trimmedInput == Trim(input)
        idx == 1..Len(candidates)
        exactMatch == FindFirst(candidates, {i \in idx : Trim(candidates[i]) = trimmedInput})
        inputLastName == extractLastName(trimmedInput)
        lastNameMatch ==
          FindFirst(candidates, {i \in idx : inputLastName = extractLastName(candidates[i])})
        similarity ==
          [i \in idx |->
             Max(calculateSimilarity(trimmedInput, candidates[i]),
                 (calculateSimilarity(inputLastName, extractLastName(candidates[i])) * 9)
                   \div 10)]
    IN IF trimmedInput = inputLastName /\ lastNameMatch # <<>>
         THEN Matched(lastNameMatch[1], (SimScale * 95) \div 100, "lastname", TRUE)
       ELSE IF exactMatch # <<>> /\ exactMatch[1] # Blank
         THEN Matched(exactMatch[1], SimScale, "exact", FALSE)
       ELSE ReduceBest(candidates, similarity, NoMatch)

\* variant of findBestMatch whose last-name tier does not test that the
\* input is a bare last name
findBestMatch_anyLastName(input, candidates) ==
  IF input = Blank \/ candidates = <<>> THEN NoMatch
  ELSE
    LET trimmedInput == Trim(input)
        idx == 1..Len(candidates)
        exactMatch == FindFirst(candidates, {i \in idx : Trim(candidates[i]) = trimmedInput})
        inputLastName == extractLastName(trimmedInput)
        lastNameMatch ==
          FindFirst(candidates, {i \in idx : inputLastName = extractLastName(candidates[i])})
        similarity ==
          [i \in idx |->
             Max(calculateSimilarity(trimmedInput, candidates[i]),
                 (calculateSimilarity(inputLastName, extractLastName(candidates[i])) * 9)
                   \div 10)]
    IN IF exactMatch # <<>> /\ exactMatch[1] # Blank
         THEN Matched(exactMatch[1], SimScale, "exact", FALSE)
       ELSE IF lastNameMatch # <<>>
         THEN Matched(lastNameMatch[1], (SimScale * 95) \div 100, "lastname", TRUE)
       ELSE ReduceBest(candidates, similarity, NoMatch)

findBestMatch(input, candidates) ==
  IF input = Blank \/ candidates = <<>> THEN NoMatch
  ELSE
    LET trimmedInput == Trim(input)
        idx == 1..Len(candidates)
        exactMatch == FindFirst(candidates, {i \in idx : Trim(candidates[i]) = trimmedInput})
        inputLastName == extractLastName(trimmedInput)
        lastNameMatch ==
          FindFirst(candidates, {i \in idx : inputLastName = extractLastName(candidates[i])})
        similarity ==
          [i \in idx |->
             Max(calculateSimilarity(trimmedInput, candidates[i]),
                 (calculateSimilarity(inputLastName, extractLastName(candidates[i])) * 9)
                   \div 10)]
    IN IF exactMatch # <<>> /\ exactMatch[1] # Blank
         THEN Matched(exactMatch[1], SimScale, "exact", FALSE)
       ELSE IF trimmedInput = inputLastName /\ lastNameMatch # <<>>
         THEN Matched(lastNameMatch[1], (SimScale * 95) \div 100, "lastname", TRUE)
       ELSE ReduceBest(candidates, similarity, NoMatch)

\* String.prototype.toLowerCase on the letters of the model
ToLowerCase(str) == [i \in 1..Len(str) |-> IF str[i] = "A" THEN "a" ELSE str[i]]

\* voiced and semi-voiced katakana to their base: the tokens "ga", "ba"
\* and "pa" stand for one voiced / semi-voiced character each, "ka" and
\* "ha" for their unvoiced base (character code - 1, or - 2 for "pa")
normalizeKatakana(str) ==
  [i \in 1..Len(str) |->
     CASE str[i] = "ga" -> "ka"
       [] str[i] = "ba" -> "ha"
       [] str[i] = "pa" -> "ha"
       [] OTHER -> str[i]]

findBestProductMatch(input, candidates) ==
  IF input = Blank \/ candidates = <<>> THEN NoMatch
  ELSE
    LET trimmedInput == Trim(input)
        idx == 1..Len(candidates)
        exactMatch == FindFirst(candidates, {i \in idx : Trim(candidates[i]) = trimmedInput})
        caseInsensitiveMatch ==
          FindFirst(candidates,
                    {i \in idx : ToLowerCase(Trim(candidates[i])) = ToLowerCase(trimmedInput)})
        similarity ==
          [i \in idx |->
             Max(calculateSimilarity(trimmedInput, candidates[i]),
                 calculateSimilarity(normalizeKatakana(trimmedInput),
                                     normalizeKatakana(candidates[i])))]
    IN IF exactMatch # <<>> /\ exactMatch[1] # Blank
         THEN Matched(exactMatch[1], SimScale, "exact", FALSE)
       ELSE IF caseInsensitiveMatch # <<>> /\ caseInsensitiveMatch[1] # Blank
         THEN Matched(caseInsensitiveMatch[1], (SimScale * 98) \div 100, "exact", FALSE)
       ELSE ReduceBest(candidates, similarity, NoMatch)

(***************************************************************************)
(* Store responses and the retry wrapper                                   *)
(***************************************************************************)
\* the attempt ceiling and the base delay (ms) of fetchWithRetry
maxRetries == 3
delay == 1000

Statuses == {200, 403, 429, 500}

\* what one fetch produces: a response with a status, or a rejection
\* (network error), written as status 0 with net = TRUE
NetworkError == [net |-> TRUE, status |-> 0]

Responses == {[net |-> FALSE, status |-> st] : st \in Statuses} \cup {NetworkError}

ResponseOk(r) == ~r.net /\ r.status \in 200..299

RECURSIVE Pow2(_)
Pow2(n) == IF n = 0 THEN 1 ELSE 2 * Pow2(n - 1)

RECURSIVE FetchLoop_sameWait(_, _, _)
\* variant of FetchLoop that waits the base delay after a 429 as well
FetchLoop_sameWait(responses, attempt, waits) ==
  LET r == responses[attempt]
      final == [thrown |-> r.net, response |-> r, attempts |-> attempt, waits |-> waits]
  IN IF (r.net \/ r.status = 429 \/ (r.status >= 500 /\ r.status < 600))
          /\ attempt < maxRetries
       THEN FetchLoop_sameWait(responses, attempt + 1, Append(waits, delay))
       ELSE final

RECURSIVE FetchLoop_throwAtOnce(_, _, _)
\* variant of FetchLoop that rethrows a network error without a retry
FetchLoop_throwAtOnce(responses, attempt, waits) ==
  LET r == responses[attempt]
      final == [thrown |-> r.net, response |-> r, attempts |-> attempt, waits |-> waits]
  IN IF r.net THEN final
     ELSE IF r.status = 429 /\ attempt < maxRetries
       THEN FetchLoop_throwAtOnce(responses, attempt + 1,
                                  Append(waits, delay * Pow2(attempt - 1)))
     ELSE IF r.status >= 500 /\ r.status < 600 /\ attempt < maxRetries
       THEN FetchLoop_throwAtOnce(responses, attempt + 1, Append(waits, delay))
     ELSE final

RECURSIVE FetchLoop(_, _, _)
\* the for loop of fetchWithRetry from attempt on; responses[k] is what the
\* k-th fetch produces; the result is what the caller gets, the number of
\* fetches made and the waits slept between them
FetchLoop(responses, attempt, waits) ==
  LET r == responses[attempt]
      final == [thrown |-> r.net, response |-> r, attempts |-> attempt, waits |-> waits]
  IN IF r.net
       THEN IF attempt < maxRetries
              THEN FetchLoop(responses, attempt + 1, Append(waits, delay))
              ELSE final
     ELSE IF r.status = 429 /\ attempt < maxRetries
       THEN FetchLoop(responses, attempt + 1, Append(waits, delay * Pow2(attempt - 1)))
     ELSE IF r.status >= 500 /\ r.status < 600 /\ attempt < maxRetries
       THEN FetchLoop(responses, attempt + 1, Append(waits, delay))
     ELSE final

fetchWithRetry(responses) == FetchLoop(responses, 1, <<>>)

\* a bare fetch: one request, whatever it produces goes to the caller
fetch(responses) ==
  [thrown |-> responses[1].net, response |-> responses[1], attempts |-> 1, waits |-> <<>>]

\* what the store may answer to the successive fetches of one call
ResponseSeqs == [1..maxRetries -> Responses]

\* every way a call through fetchWithRetry can end, over all answers
RetryResults == {fetchWithRetry(responses) : responses \in ResponseSeqs}

\* every way a bare fetch can end
FetchResults == {fetch(responses) : responses \in ResponseSeqs}

(***************************************************************************)
(* Inputs of the model                                                     *)
(***************************************************************************)
Employees == {<<"w1">>, <<"w2">>}

\* 2024/06/21 and 2024/06/22, both of the period 2024-06
Date0621 == <<"2", "0", "2", "4", "/", "0", "6", "/", "2", "1">>
Date0622 == <<"2", "0", "2", "4", "/", "0", "6", "/", "2", "2">>

WorkDates == {Date0621, Date0622}

T0800 == <<"8", ":", "0", "0">>
T0900 == <<"9", ":", "0", "0">>
T1200 == <<"1", "2", ":", "0", "0">>
T1300 == <<"1", "3", ":", "0", "0">>
T1600 == <<"1", "6", ":", "0", "0">>
T1700 == <<"1", "7", ":", "0", "0">>

NoRest == [lunch |-> FALSE, mid |-> FALSE]

\* a record that supplies a produced count only
CountRecord(name) ==
  [name |-> name, start |-> Blank, end |-> Blank, slots |-> <<>>,
   rest |-> NoRest, count |-> <<"1", "2", "0">>]

\* a record that supplies one interval and a lunch break, no count
TimeRecord(name) ==
  [name |-> name, start |-> T0900, end |-> T1700,
   slots |-> <<[start |-> T0900, end |-> T1700]>>,
   rest |-> [lunch |-> TRUE, mid |-> FALSE], count |-> Blank]

\* a record with two intervals, listed latest first
SplitRecord(name) ==
  [name |-> name, start |-> T1300, end |-> T1700,
   slots |-> <<[start |-> T1300, end |-> T1700], [start |-> T0900, end |-> T1200]>>,
   rest |-> NoRest, count |-> <<"8", "0">>]

RecordsOf(names) ==
  {CountRecord(n) : n \in names} \cup {TimeRecord(n) : n \in names}
    \cup {SplitRecord(n) : n \in names}

Headers(dates, products) == [workDate : dates, product : products]

\* lists of at most n elements of S
SeqsUpTo(S, n) == UNION {[1..k -> S] : k \in 0..n}

\* one OCR submission of the batch specification: the names of the
\* employees and a name of white space, in either list
BatchSubmissions ==
  LET names == Employees \cup {<<" ">>}
      recs == {CountRecord(n) : n \in names}
  IN {o \in [header : Headers({Date0621}, {<<"P", "1">>}),
             packaging : SeqsUpTo(recs, MaxEntries),
             machine : SeqsUpTo(recs, MaxEntries)] :
        Len(o.packaging) + Len(o.machine) <= MaxEntries}

\* one OCR submission of the one-worker specification: one record of
\* worker w1, a packaging record or a machine-operation record
SeqSubmissions ==
  {o \in [header : Headers(WorkDates, {<<"P", "1">>}),
          packaging : SeqsUpTo(RecordsOf({<<"w1">>}), 1),
          machine : SeqsUpTo({TimeRecord(<<"w1">>)}, 1)] :
     Len(o.packaging) + Len(o.machine) = 1}

\* a row somebody filled in by hand: date, a note in B, product, times,
\* break, a value in the reserved column G, a count and a remark
FilledRow(date) ==
  [c \in Cols |->
     CASE c = 1 -> date
       [] c = 2 -> <<"n", "o", "t", "e">>
       [] c = 3 -> <<"P", "0">>
       [] c = 4 -> T0800
       [] c = 5 -> T1600
       [] c = 6 -> <<"0", ":", "1", "5">>
       [] c = 7 -> <<"g">>
       [] c = 8 -> <<"5", "0">>
       [] c = 16 -> <<"m", "e", "m", "o">>
       [] OTHER -> Blank]

DatedRow(date) == [BlankRow EXCEPT ![1] = date]

\* a grid whose first rows are given; the date column always leaves the
\* last row of the grid free
MakeSheet(rows) ==
  [r \in 1..GridRows |-> IF r <= Len(rows) THEN rows[r] ELSE BlankRow]

EmptySheet == MakeSheet(<<>>)

\* 6/21 filled in, 6/22 prepared
DatedSheet == MakeSheet(<<FilledRow(<<"6", "/", "2", "1">>), DatedRow(<<"6", "/", "2", "2">>)>>)

\* a legacy 06/21 row above the 6/21 row
LegacySheet ==
  MakeSheet(<<FilledRow(<<"0", "6", "/", "2", "1">>), DatedRow(<<"6", "/", "2", "1">>)>>)

\* a 6/21 row, and below it a row without a date that holds a note in B
NotedSheet ==
  MakeSheet(<<DatedRow(<<"6", "/", "2", "1">>), [BlankRow EXCEPT ![2] = <<"n", "o", "t", "e">>]>>)

SheetContents == {EmptySheet, DatedSheet, LegacySheet, NotedSheet}

ModelPeriod == [year |-> 2024, month |-> 6]

SheetOf(e) == ExpectedSheetName(e, ModelPeriod)

\* every sheet name of the model; the last one is a sheet of another
\* period that the store always holds
OtherPeriodSheet == ExpectedSheetName(<<"w1">>, [year |-> 2024, month |-> 5])

\* a sheet the store always holds whose name contains the name of the sheet
\* of w2: a copy somebody kept
CopySheet == SheetOf(<<"w2">>) \o <<"_", "o", "l", "d">>

\* the sheet of the first employee of the confirmation page
PageSheet == SheetOf(<<"a", " ", "b">>)

AllSheetNames == {SheetOf(e) : e \in Employees} \cup {OtherPeriodSheet, CopySheet, PageSheet}

(***************************************************************************)
(* DataCorrectionService                                                   *)
(***************************************************************************)
\* the confidence 0.4 below which a correction carries the error flag
LowConfidence == (SimScale * 4) \div 10

\* a header as the OCR step delivers it: no correction fields yet (an
\* absent field is the empty optional value, an absent flag is FALSE)
OcrHeader(workDate, product) ==
  [workDate |-> workDate, product |-> product, originalProductName |-> <<>>,
   productConfidence |-> <<>>, productMatchType |-> <<>>, productError |-> FALSE]

\* a worker record as the OCR step delivers it
OcrRecord(name) ==
  [name |-> name, start |-> T0900, end |-> T1700,
   slots |-> <<[start |-> T0900, end |-> T1700]>>,
   rest |-> [lunch |-> TRUE, mid |-> FALSE], count |-> <<"1", "2", "0">>,
   originalName |-> <<>>, confidence |-> <<>>, matchType |-> <<>>,
   isLastNameMatch |-> <<>>, nameError |-> FALSE]

correctHeader(header, products) ==
  IF header.product # Blank
    THEN LET productMatch == findBestProductMatch(header.product, products)
         IN IF ~productMatch.null /\ productMatch.match # Blank
              THEN [header EXCEPT
                      !.product = productMatch.match,
                      !.originalProductName = <<header.product>>,
                      !.productConfidence = <<productMatch.confidence>>,
                      !.productMatchType = <<productMatch.type>>,
                      !.productError =
                         IF productMatch.confidence < LowConfidence THEN TRUE ELSE @]
              ELSE header
    ELSE header

\* variant of correctPackagingRecords that sets the flag below 0.4 only
\* and leaves a name without any match unflagged
correctPackagingRecords_noMatchUnflagged(records, employees) ==
  [k \in 1..Len(records) |->
     LET record == records[k]
     IN IF record.name # Blank
          THEN LET nameMatch == findBestMatch(record.name, employees)
               IN IF ~nameMatch.null /\ nameMatch.match # Blank
                    THEN [record EXCEPT
                            !.originalName = <<record.name>>,
                            !.name = nameMatch.match,
                            !.confidence = <<nameMatch.confidence>>,
                            !.matchType = <<nameMatch.type>>,
                            !.isLastNameMatch = <<nameMatch.isLastNameMatch>>,
                            !.nameError =
                               IF nameMatch.confidence < LowConfidence THEN TRUE ELSE @]
                    ELSE [record EXCEPT
                            !.originalName = <<record.name>>,
                            !.confidence = <<0>>,
                            !.matchType = <<"no_match">>]
          ELSE record]

correctPackagingRecords(records, employees) ==
  [k \in 1..Len(records) |->
     LET record == records[k]
     IN IF record.name # Blank
          THEN LET nameMatch == findBestMatch(record.name, employees)
               IN IF ~nameMatch.null /\ nameMatch.match # Blank
                    THEN [record EXCEPT
                            !.originalName = <<record.name>>,
                            !.name = nameMatch.match,
                            !.confidence = <<nameMatch.confidence>>,
                            !.matchType = <<nameMatch.type>>,
                            !.isLastNameMatch = <<nameMatch.isLastNameMatch>>,
                            !.nameError =
                               IF nameMatch.confidence < LowConfidence THEN TRUE ELSE @]
                    ELSE [record EXCEPT
                            !.originalName = <<record.name>>,
                            !.name = record.name,
                            !.confidence = <<0>>,
                            !.matchType = <<"no_match">>,
                            !.nameError = TRUE]
          ELSE record]

correctMachineRecords(records, employees) ==
  [k \in 1..Len(records) |->
     LET record == records[k]
     IN IF record.name # Blank
          THEN LET nameMatch == findBestMatch(record.name, employees)
               IN IF ~nameMatch.null /\ nameMatch.match # Blank
                    THEN [record EXCEPT
                            !.originalName = <<record.name>>,
                            !.name = nameMatch.match,
                            !.confidence = <<nameMatch.confidence>>,
                            !.matchType = <<nameMatch.type>>,
                            !.isLastNameMatch = <<nameMatch.isLastNameMatch>>,
                            !.nameError =
                               IF nameMatch.confidence < LowConfidence THEN TRUE ELSE @]
                    ELSE [record EXCEPT
                            !.originalName = <<record.name>>,
                            !.name = record.name,
                            !.confidence = <<0>>,
                            !.matchType = <<"no_match">>,
                            !.nameError = TRUE]
          ELSE record]

\* correctOcrResult: the header against the products, both record lists
\* against the employees of the master data
correctOcrResult(ocr, masterData) ==
  [header |-> correctHeader(ocr.header, masterData.products),
   packaging |-> correctPackagingRecords(ocr.packaging, masterData.employees),
   machine |-> correctMachineRecords(ocr.machine, masterData.employees)]

(***************************************************************************)
(* State                                                                   *)
(***************************************************************************)
VARIABLES
  sheetNames,     \* the titles the store lists
  sheets,         \* sheet title -> grid of cells
  ocrResult,      \* the submission of the running / last saveToPersonalSheets
  tasks,          \* the worker tasks (savePromises) of that call, in order
  batch,          \* "idle", "running", "returned" or "thrown"
  failedWorkers,  \* the failedWorkers list a returned call hands back
  calls,          \* number of saveToPersonalSheets calls so far
  unretried,      \* history: kinds of store call of the running call whose
                  \* 429 / 5xx response reached the caller after fewer than
                  \* maxRetries fetches
  written,        \* history: <<sheet, normalized work date, row>> of every
                  \* batch update the store accepted
  history,        \* history: submission, outcome and sheets of finished calls
  mKind,          \* resolver under study: "person", "product" or "none"
  mInput,         \* its input string
  mCandidates,    \* its candidate list
  mResult,        \* its MatchResult once it has run, as an optional value
  editedData,     \* confirmation page: the data under edit
  page,           \* confirmation page: "none", "editing", "checking",
                  \* "dialog", "saving" or "done"
  pending         \* the editedData that the running handleSave has captured

storeVars == <<sheetNames, sheets, ocrResult, tasks, batch, failedWorkers, calls,
               unretried, written, history>>

matchVars == <<mKind, mInput, mCandidates, mResult>>

pageVars == <<editedData, page, pending>>

vars == <<sheetNames, sheets, ocrResult, tasks, batch, failedWorkers, calls,
          unretried, written, history, mKind, mInput, mCandidates, mResult,
          editedData, page, pending>>

Terminal == {"done", "no_sheet", "error"}

NoSubmission ==
  [header |-> [workDate |-> Blank, product |-> Blank],
   packaging |-> <<>>, machine |-> <<>>]

\* names of both lists, packaging first, without empty and blank names
AllWorkers(ocr) ==
  SelectSeq([i \in 1..Len(ocr.packaging) |-> ocr.packaging[i].name]
              \o [i \in 1..Len(ocr.machine) |-> ocr.machine[i].name],
            LAMBDA name : name # Blank /\ Trim(name) # Blank)

\* records.find(record => record.name === workerName), as an optional record
FindRecord(records, workerName) ==
  LET hits == SelectSeq(records, LAMBDA r : r.name = workerName)
  IN IF hits = <<>> THEN <<>> ELSE <<hits[1]>>

\* issued is a history field: the kinds of the store calls the task has
\* completed, in order
NewTask(name) ==
  [name |-> name, pc |-> "resolve", row |-> 0, rowData |-> BlankRow,
   failedCall |-> "none", wrote |-> FALSE, issued |-> <<>>]

\* the sheet a task works on, once findPersonalSheet has returned it
TaskSheet(t) ==
  ExpectedSheetName(t.name, calculatePeriodYearMonth(ParseDate(ocrResult.header.workDate)))

\* a 429 or 5xx response handed to the caller before the attempt ceiling
Unretried(kind, result) ==
  IF ~result.thrown /\ (result.response.status = 429 \/ result.response.status \in 500..599)
       /\ result.attempts < maxRetries
    THEN {kind} ELSE {}

CallFailed(result) == result.thrown \/ ~ResponseOk(result.response)

\* history field failedCall of a task: the kind of its first store call
\* that failed, "none" while none has; wrote: it has sent a batch update
NoteCall(t, kind, result) ==
  IF t.failedCall = "none" /\ CallFailed(result) THEN kind ELSE t.failedCall

\* the store before the first call: the sheet of each of the employees emps
\* is absent or holds one of contents; nothing else holds data
InitStore(emps, contents) ==
  /\ sheetNames \in {S \cup {OtherPeriodSheet, CopySheet} :
                       S \in SUBSET {SheetOf(e) : e \in emps}}
  /\ sheets \in [AllSheetNames -> contents \cup {EmptySheet}]
  /\ \A n \in AllSheetNames \ sheetNames : sheets[n] = EmptySheet
  /\ sheets[OtherPeriodSheet] = EmptySheet
  /\ sheets[CopySheet] = EmptySheet

\* no resolver or corrector call under study
NoMatcher ==
  /\ mKind = "none"
  /\ mInput = Blank
  /\ mCandidates = <<>>
  /\ mResult = <<>>

\* no confirmation page
NoPage ==
  /\ editedData = NoSubmission
  /\ page = "none"
  /\ pending = NoSubmission

\* no store and no call: the state of the store variables in the
\* specifications of the pure functions
NoStore ==
  /\ sheetNames = {}
  /\ sheets = [n \in AllSheetNames |-> EmptySheet]
  /\ ocrResult = NoSubmission
  /\ tasks = <<>>
  /\ batch = "idle"
  /\ failedWorkers = <<>>
  /\ calls = 0
  /\ unretried = {}
  /\ written = {}
  /\ history = <<>>

InitCall ==
  /\ ocrResult = NoSubmission
  /\ tasks = <<>>
  /\ batch = "idle"
  /\ failedWorkers = <<>>
  /\ calls = 0
  /\ unretried = {}
  /\ written = {}
  /\ history = <<>>
  /\ NoMatcher
  /\ NoPage

(***************************************************************************)
(* saveToPersonalSheets: entry                                             *)
(***************************************************************************)
\* ensureAuthenticated, then one task per entry of allWorkers
saveToPersonalSheets(ocr, tokenValid) ==
  /\ batch # "running"
  /\ calls' = calls + 1
  /\ ocrResult' = ocr
  /\ failedWorkers' = <<>>
  /\ IF tokenValid
       THEN /\ tasks' = [i \in 1..Len(AllWorkers(ocr)) |-> NewTask(AllWorkers(ocr)[i])]
            /\ batch' = "running"
       ELSE /\ tasks' = <<>>
            /\ batch' = "thrown"
  /\ unretried' = {}
  /\ UNCHANGED <<sheetNames, sheets, written, history>>

(***************************************************************************)
(* One worker task: saveWorkerData                                         *)
(***************************************************************************)
SetTask(i, t) == tasks' = [tasks EXCEPT ![i] = t]

\* variant of SheetListed that takes a sheet whose name contains the
\* expected name (allSheetNames.some(name => name.includes(expected)))
SheetListed_containing(expectedSheetName, allSheetNames) ==
  \E n \in allSheetNames :
    \E k \in 0..(Len(n) - Len(expectedSheetName)) :
      SubSeq(n, k + 1, k + Len(expectedSheetName)) = expectedSheetName

\* allSheetNames.includes(expectedSheetName)
SheetListed(expectedSheetName, allSheetNames) == expectedSheetName \in allSheetNames

\* variant of ResolveSheet that goes on to the new row without the lookup
ResolveSheet_skipLookup(i) ==
  /\ batch = "running"
  /\ tasks[i].pc = "resolve"
  /\ LET t == tasks[i]
         date == ParseDate(ocrResult.header.workDate)
     IN IF ~date.valid
          THEN /\ SetTask(i, [t EXCEPT !.pc = "error"])
               /\ UNCHANGED unretried
          ELSE \E result \in RetryResults :
                    /\ unretried' = unretried \cup Unretried("list", result)
                    /\ IF CallFailed(result)
                         THEN SetTask(i, [t EXCEPT !.pc = "error", !.failedCall = "list",
                                                   !.issued = Append(@, "list")])
                       ELSE IF SheetListed(TaskSheet(t), sheetNames)
                         THEN SetTask(i, [t EXCEPT !.pc = "nextRow",
                                  !.issued = Append(@, "list"),
                                  !.rowData = createNewRowData(ocrResult.header,
                                     FindRecord(ocrResult.packaging, t.name),
                                     FindRecord(ocrResult.machine, t.name))])
                       ELSE SetTask(i, [t EXCEPT !.pc = "no_sheet",
                                                 !.issued = Append(@, "list")])
  /\ UNCHANGED <<sheetNames, sheets, ocrResult, batch, failedWorkers, calls, written, history>>
  /\ UNCHANGED <<matchVars, pageVars>>

\* findPersonalSheet: the period of the work date, then the sheet listing
\* (getAllSheetNames, through fetchWithRetry) and the exact-name test
ResolveSheet(i) ==
  /\ batch = "running"
  /\ tasks[i].pc = "resolve"
  /\ LET t == tasks[i]
         date == ParseDate(ocrResult.header.workDate)
     IN IF ~date.valid
          THEN /\ SetTask(i, [t EXCEPT !.pc = "error"])
               /\ UNCHANGED unretried
          ELSE \E result \in RetryResults :
                    /\ unretried' = unretried \cup Unretried("list", result)
                    /\ IF CallFailed(result)
                         THEN SetTask(i, [t EXCEPT !.pc = "error", !.failedCall = "list",
                                                   !.issued = Append(@, "list")])
                       ELSE IF SheetListed(TaskSheet(t), sheetNames)
                         THEN SetTask(i, [t EXCEPT !.pc = "lookup",
                                                   !.issued = Append(@, "list")])
                       ELSE SetTask(i, [t EXCEPT !.pc = "no_sheet",
                                                 !.issued = Append(@, "list")])
  /\ UNCHANGED <<sheetNames, sheets, ocrResult, batch, failedWorkers, calls, written, history>>
  /\ UNCHANGED <<matchVars, pageVars>>

\* findExistingRowByDate: column A through fetchWithRetry; a failed call
\* gives -1 like a date that is not there; then the branch of
\* saveToPersonalSheetStructure
findExistingRowByDate(sheet, workDate, result) ==
  IF CallFailed(result) THEN 0 ELSE FindRow(DateColumn(sheet), workDate)

FindExistingRow(i) ==
  /\ batch = "running"
  /\ tasks[i].pc = "lookup"
  /\ \E result \in RetryResults :
       LET t == tasks[i]
           workDate == normalizeDate(ocrResult.header.workDate)
           existingRowIndex == findExistingRowByDate(sheets[TaskSheet(t)], workDate, result)
           failed == NoteCall(t, "lookup", result)
       IN /\ unretried' = unretried \cup Unretried("lookup", result)
          /\ IF existingRowIndex > 0
               THEN SetTask(i, [t EXCEPT !.pc = "read", !.row = existingRowIndex,
                                         !.failedCall = failed,
                                         !.issued = Append(@, "lookup")])
               ELSE SetTask(i, [t EXCEPT !.pc = "nextRow", !.failedCall = failed,
                                  !.issued = Append(@, "lookup"),
                                  !.rowData = createNewRowData(ocrResult.header,
                                     FindRecord(ocrResult.packaging, t.name),
                                     FindRecord(ocrResult.machine, t.name))])
  /\ UNCHANGED <<sheetNames, sheets, ocrResult, batch, failedWorkers, calls, written, history>>
  /\ UNCHANGED <<matchVars, pageVars>>

\* getCurrentRowData: a bare fetch of A..P of the row; 16 empty strings
\* when the call fails
getCurrentRowData(sheet, rowIndex, result) ==
  IF CallFailed(result) THEN BlankRow ELSE sheet[rowIndex]

\* createMergedRowData, then the requests of updatePersonalSheetRow, which
\* returns without a write when there is no request
MergeRow(i) ==
  /\ batch = "running"
  /\ tasks[i].pc = "read"
  /\ \E result \in FetchResults :
       LET t == tasks[i]
           existingData == getCurrentRowData(sheets[TaskSheet(t)], t.row, result)
           rowData == createMergedRowData(existingData, ocrResult.header,
                        FindRecord(ocrResult.packaging, t.name),
                        FindRecord(ocrResult.machine, t.name))
           failed == NoteCall(t, "read", result)
       IN /\ unretried' = unretried \cup Unretried("read", result)
          /\ IF UpdateRanges(rowData) = {}
               THEN SetTask(i, [t EXCEPT !.pc = "done", !.rowData = rowData,
                                         !.failedCall = failed,
                                         !.issued = Append(@, "read")])
               ELSE SetTask(i, [t EXCEPT !.pc = "update", !.rowData = rowData,
                                         !.failedCall = failed,
                                         !.issued = Append(@, "read")])
  /\ UNCHANGED <<sheetNames, sheets, ocrResult, batch, failedWorkers, calls, written, history>>
  /\ UNCHANGED <<matchVars, pageVars>>

\* the batch update of updatePersonalSheetRow: a bare fetch, an error when
\* the response is not OK
UpdateRow(i) ==
  /\ batch = "running"
  /\ tasks[i].pc = "update"
  /\ \E result \in FetchResults :
       LET t == tasks[i]
           sn == TaskSheet(t)
       IN /\ unretried' = unretried \cup Unretried("write", result)
          /\ IF CallFailed(result)
               THEN /\ SetTask(i, [t EXCEPT !.pc = "error", !.wrote = TRUE,
                                              !.failedCall = NoteCall(t, "write", result),
                                              !.issued = Append(@, "write")])
                    /\ UNCHANGED <<sheets, written>>
               ELSE /\ SetTask(i, [t EXCEPT !.pc = "done", !.wrote = TRUE,
                                              !.issued = Append(@, "write")])
                    /\ sheets' = [sheets EXCEPT ![sn] =
                                    ApplyRanges(@, t.row, t.rowData, UpdateRanges(t.rowData))]
                    /\ written' = written \cup
                         {<<sn, normalizeDate(ocrResult.header.workDate), t.row>>}
  /\ UNCHANGED <<sheetNames, ocrResult, batch, failedWorkers, calls, history>>
  /\ UNCHANGED <<matchVars, pageVars>>

\* appendPersonalSheetRow, first half: a bare fetch of column A to find
\* the row below its last value
NextRow(i) ==
  /\ batch = "running"
  /\ tasks[i].pc = "nextRow"
  /\ \E result \in FetchResults :
       LET t == tasks[i]
       IN /\ unretried' = unretried \cup Unretried("nextRow", result)
          /\ IF CallFailed(result)
               THEN SetTask(i, [t EXCEPT !.pc = "error",
                                         !.failedCall = NoteCall(t, "nextRow", result),
                                         !.issued = Append(@, "nextRow")])
               ELSE SetTask(i, [t EXCEPT !.pc = "append",
                                         !.row = Len(DateColumn(sheets[TaskSheet(t)])) + 1,
                                         !.issued = Append(@, "nextRow")])
  /\ UNCHANGED <<sheetNames, sheets, ocrResult, batch, failedWorkers, calls, written, history>>
  /\ UNCHANGED <<matchVars, pageVars>>

\* appendPersonalSheetRow, second half: the batch update of the new row
AppendRow(i) ==
  /\ batch = "running"
  /\ tasks[i].pc = "append"
  /\ \E result \in FetchResults :
       LET t == tasks[i]
           sn == TaskSheet(t)
       IN /\ unretried' = unretried \cup Unretried("write", result)
          /\ IF CallFailed(result)
               THEN /\ SetTask(i, [t EXCEPT !.pc = "error", !.wrote = TRUE,
                                              !.failedCall = NoteCall(t, "write", result),
                                              !.issued = Append(@, "write")])
                    /\ UNCHANGED <<sheets, written>>
               ELSE /\ SetTask(i, [t EXCEPT !.pc = "done", !.wrote = TRUE,
                                              !.issued = Append(@, "write")])
                    /\ sheets' = [sheets EXCEPT ![sn] =
                                    ApplyRanges(@, t.row, t.rowData, AppendRanges(t.rowData))]
                    /\ written' = written \cup
                         {<<sn, normalizeDate(ocrResult.header.workDate), t.row>>}
  /\ UNCHANGED <<sheetNames, ocrResult, batch, failedWorkers, calls, history>>
  /\ UNCHANGED <<matchVars, pageVars>>

(***************************************************************************)
(* saveToPersonalSheets: collecting the results                            *)
(***************************************************************************)
\* variant of AllSettled that resolves as soon as one task has failed
\* (Promise.all over tasks that rethrow)
AllSettled_failFast ==
  \/ \A i \in 1..Len(tasks) : tasks[i].pc \in Terminal
  \/ \E i \in 1..Len(tasks) : tasks[i].pc = "error"

\* Promise.allSettled(savePromises) resolves when every task has ended
AllSettled == \A i \in 1..Len(tasks) : tasks[i].pc \in Terminal

\* variant of BatchResult that throws for a missing sheet as for any error
BatchResult_noSheetThrows(ts) ==
  IF \E i \in 1..Len(ts) : ts[i].pc # "done"
    THEN [thrown |-> TRUE, failedWorkers |-> <<>>]
    ELSE [thrown |-> FALSE, failedWorkers |-> <<>>]

\* the loop over the results: a no_sheet result adds the name to
\* failedWorkers, an error result is thrown
BatchResult(ts) ==
  IF \E i \in 1..Len(ts) : ts[i].pc = "error"
    THEN [thrown |-> TRUE, failedWorkers |-> <<>>]
    ELSE [thrown |-> FALSE,
          failedWorkers |->
            LET missing == SelectSeq(ts, LAMBDA t : t.pc = "no_sheet")
            IN [k \in 1..Len(missing) |-> missing[k].name]]

Settle ==
  /\ batch = "running"
  /\ AllSettled
  /\ LET res == BatchResult(tasks)
     IN /\ batch' = IF res.thrown THEN "thrown" ELSE "returned"
        /\ failedWorkers' = res.failedWorkers
        /\ history' = Append(history,
             [ocr |-> ocrResult, sheets |-> sheets,
              saved |-> ~res.thrown /\ res.failedWorkers = <<>>])
  /\ UNCHANGED <<sheetNames, sheets, ocrResult, tasks, calls, unretried, written>>
  /\ UNCHANGED <<matchVars, pageVars>>

TaskStep ==
  \/ \E i \in 1..Len(tasks) : ResolveSheet(i)
  \/ \E i \in 1..Len(tasks) : FindExistingRow(i)
  \/ \E i \in 1..Len(tasks) : MergeRow(i)
  \/ \E i \in 1..Len(tasks) : UpdateRow(i)
  \/ \E i \in 1..Len(tasks) : NextRow(i)
  \/ \E i \in 1..Len(tasks) : AppendRow(i)

(***************************************************************************)
(* Specification of one batch: a single saveToPersonalSheets call          *)
(***************************************************************************)
\* the store before the call: the sheet of w1 holds the dated rows, the
\* sheet of w2 is absent or still empty
Init ==
  /\ sheetNames \in {{SheetOf(<<"w1">>), OtherPeriodSheet, CopySheet},
                      {SheetOf(<<"w1">>), SheetOf(<<"w2">>), OtherPeriodSheet, CopySheet}}
  /\ sheets = [n \in AllSheetNames |->
                 IF n = SheetOf(<<"w1">>) THEN DatedSheet ELSE EmptySheet]
  /\ InitCall

Submit ==
  /\ batch = "idle"
  /\ \E ocr \in BatchSubmissions, tokenValid \in BOOLEAN : saveToPersonalSheets(ocr, tokenValid)
  /\ UNCHANGED <<matchVars, pageVars>>

Next == Submit \/ TaskStep \/ Settle

Spec == Init /\ [][Next]_vars

(***************************************************************************)
(* Specification of one worker's sheet over successive calls               *)
(***************************************************************************)
InitSeq == InitStore({<<"w1">>}, SheetContents) /\ InitCall

SubmitNext ==
  /\ calls < MaxSeqCalls
  /\ \E ocr \in SeqSubmissions, tokenValid \in BOOLEAN : saveToPersonalSheets(ocr, tokenValid)
  /\ UNCHANGED <<matchVars, pageVars>>

NextSeq == SubmitNext \/ TaskStep \/ Settle

SpecSeq == InitSeq /\ [][NextSeq]_vars

(***************************************************************************)
(* ConfirmationPage: edits, validation and the save request                *)
(***************************************************************************)
MaxPageRecords == 1

\* array.includes(value)
Includes(list, value) == \E i \in 1..Len(list) : list[i] = value

\* the master data the page has loaded
PageMasterData ==
  [employees |-> << <<"a", " ", "b">>, <<"b", "b", "b">> >>,
   products |-> << <<"a">>, <<"a", "ka">> >>]

\* what the OCR step read: a product that is empty, exact, a fuzzy match
\* below 0.4, and without any match; a name that is exact, a fuzzy match
\* below 0.4, without any match, and empty
PageRawProducts == {Blank, <<"a">>, <<"ga", "ga", "a">>, <<"A", "A", "A">>}

PageRawNames == {<<"a", " ", "b">>, <<"a", "a", "a">>, <<" ">>, Blank}

PageOcrResults ==
  {o \in [header : {OcrHeader(Date0621, p) : p \in PageRawProducts},
          packaging : SeqsUpTo({OcrRecord(n) : n \in PageRawNames}, MaxPageRecords),
          machine : SeqsUpTo({OcrRecord(n) : n \in PageRawNames}, MaxPageRecords)] :
     Len(o.packaging) + Len(o.machine) <= MaxPageRecords}

\* what the user can pick or type into a product field and a name field:
\* a member of the master list and free text
PageProductValues == {<<"a", "ka">>, <<"ga">>}

PageNameValues == {<<"b", "b", "b">>, <<"a", "b">>}

\* filterEmptyRecords: a record with neither start nor end is dropped
filterEmptyRecords(records) ==
  SelectSeq(records, LAMBDA record : record.start # Blank \/ record.end # Blank)

\* the effect that fills editedData from the corrected OCR result
initializedData(ocr) ==
  [ocr EXCEPT !.packaging = filterEmptyRecords(ocr.packaging),
              !.machine = filterEmptyRecords(ocr.machine)]

updateHeader(data, field, value) ==
  LET updatedHeader == [data.header EXCEPT ![field] = value]
  IN [data EXCEPT !.header =
        IF field = "product" /\ Includes(PageMasterData.products, value)
          THEN [updatedHeader EXCEPT !.productError = FALSE]
          ELSE updatedHeader]

updatePackagingRecord(data, index, field, value) ==
  LET updatedRecord == [data.packaging[index] EXCEPT ![field] = value]
  IN [data EXCEPT !.packaging[index] =
        IF field = "name" /\ Includes(PageMasterData.employees, value)
          THEN [updatedRecord EXCEPT !.nameError = FALSE]
          ELSE updatedRecord]

updateMachineRecord(data, index, field, value) ==
  LET updatedRecord == [data.machine[index] EXCEPT ![field] = value]
  IN [data EXCEPT !.machine[index] =
        IF field = "name" /\ Includes(PageMasterData.employees, value)
          THEN [updatedRecord EXCEPT !.nameError = FALSE]
          ELSE updatedRecord]

\* records.filter((_, i) => i !== index)
deleteRecord(records, index) ==
  [k \in 1..(Len(records) - 1) |-> IF k < index THEN records[k] ELSE records[k + 1]]

\* the record addPackagingRecord and addMachineRecord put in front
newRecord ==
  [name |-> Blank, start |-> T0800, end |-> T1700,
   slots |-> <<[start |-> T0800, end |-> T1700]>>,
   rest |-> [lunch |-> TRUE, mid |-> FALSE], count |-> <<"0">>,
   originalName |-> <<>>, confidence |-> <<>>, matchType |-> <<>>,
   isLastNameMatch |-> <<>>, nameError |-> FALSE]

\* the validation of handleSave
hasProductError(data) ==
  \/ data.header.product = Blank
  \/ data.header.productError
  \/ ~Includes(PageMasterData.products, data.header.product)

RecordError(r) ==
  r.name = Blank \/ r.nameError \/ ~Includes(PageMasterData.employees, r.name)

\* variant of hasNameErrors that tests the name only, not the flag
hasNameErrors_flagIgnored(data) ==
  \/ \E k \in 1..Len(data.packaging) :
       data.packaging[k].name = Blank
         \/ ~Includes(PageMasterData.employees, data.packaging[k].name)
  \/ \E k \in 1..Len(data.machine) :
       data.machine[k].name = Blank
         \/ ~Includes(PageMasterData.employees, data.machine[k].name)

hasNameErrors(data) ==
  \/ \E k \in 1..Len(data.packaging) : RecordError(data.packaging[k])
  \/ \E k \in 1..Len(data.machine) : RecordError(data.machine[k])

\* the page opens on the corrected OCR result; the store holds the sheet of
\* the first employee of the master data, with its dated rows, and no sheet
\* of the second
InitPage ==
  /\ sheetNames = {OtherPeriodSheet, CopySheet, PageSheet}
  /\ sheets = [n \in AllSheetNames |-> IF n = PageSheet THEN DatedSheet ELSE EmptySheet]
  /\ ocrResult = NoSubmission
  /\ tasks = <<>>
  /\ batch = "idle"
  /\ failedWorkers = <<>>
  /\ calls = 0
  /\ unretried = {}
  /\ written = {}
  /\ history = <<>>
  /\ NoMatcher
  /\ \E raw \in PageOcrResults :
       editedData = initializedData(correctOcrResult(raw, PageMasterData))
  /\ page = "editing"
  /\ pending = NoSubmission

\* edits between saves. performSave works on the editedData its handleSave
\* captured, and an edit made while it runs is overwritten by the
\* failed-worker update or stays as the same edit made after the alert
Editable == page = "editing"

Edit(data) ==
  /\ Editable
  /\ editedData' = data
  /\ UNCHANGED <<page, pending>>
  /\ UNCHANGED <<storeVars, matchVars>>

UpdateHeader ==
  \E value \in PageProductValues : Edit(updateHeader(editedData, "product", value))

UpdatePackagingRecord ==
  \E index \in 1..Len(editedData.packaging) :
    \/ \E value \in PageNameValues :
         Edit(updatePackagingRecord(editedData, index, "name", value))
    \/ Edit(updatePackagingRecord(editedData, index, "count", <<"8", "0">>))

UpdateMachineRecord ==
  \E index \in 1..Len(editedData.machine) :
    \/ \E value \in PageNameValues :
         Edit(updateMachineRecord(editedData, index, "name", value))
    \/ Edit(updateMachineRecord(editedData, index, "count", <<"8", "0">>))

DeletePackagingRecord ==
  \E index \in 1..Len(editedData.packaging) :
    Edit([editedData EXCEPT !.packaging = deleteRecord(@, index)])

DeleteMachineRecord ==
  \E index \in 1..Len(editedData.machine) :
    Edit([editedData EXCEPT !.machine = deleteRecord(@, index)])

AddPackagingRecord ==
  /\ Len(editedData.packaging) + Len(editedData.machine) < MaxPageRecords
  /\ Edit([editedData EXCEPT !.packaging = <<newRecord>> \o @])

AddMachineRecord ==
  /\ Len(editedData.packaging) + Len(editedData.machine) < MaxPageRecords
  /\ Edit([editedData EXCEPT !.machine = <<newRecord>> \o @])

\* handleSave up to its first await: the validation, then performSave is
\* built over the editedData of this render and isSaving disables the button
HandleSave ==
  /\ page = "editing"
  /\ calls < MaxSeqCalls
  /\ IF hasProductError(editedData) \/ hasNameErrors(editedData)
       THEN UNCHANGED pageVars
       ELSE /\ page' = "checking"
            /\ pending' = editedData
            /\ UNCHANGED editedData
  /\ UNCHANGED <<storeVars, matchVars>>

\* performSave up to its await: the persistence call on the captured data
PerformSave ==
  /\ \E tokenValid \in BOOLEAN : saveToPersonalSheets(pending, tokenValid)
  /\ page' = "saving"
  /\ UNCHANGED <<editedData, pending>>
  /\ UNCHANGED matchVars

\* checkExistingData has answered: some worker has data -> the overwrite
\* dialog; nobody has, or the check threw -> performSave
CheckedExisting ==
  /\ page = "checking"
  /\ \E hasAnyExistingData \in BOOLEAN :
       IF hasAnyExistingData
         THEN /\ page' = "dialog"
              /\ UNCHANGED <<editedData, pending>>
              /\ UNCHANGED <<storeVars, matchVars>>
         ELSE PerformSave

\* the overwrite button calls overwriteCallback
ConfirmOverwrite ==
  /\ page = "dialog"
  /\ PerformSave

handleCancelOverwrite ==
  /\ page = "dialog"
  /\ page' = "editing"
  /\ pending' = NoSubmission
  /\ UNCHANGED editedData
  /\ UNCHANGED <<storeVars, matchVars>>

\* performSave after its await: failed workers -> their records of the
\* captured data stay for another try; none -> the success page; a thrown
\* call -> an alert
SaveFinished ==
  /\ page = "saving"
  /\ batch \in {"returned", "thrown"}
  /\ IF batch = "returned" /\ failedWorkers # <<>>
       THEN /\ editedData' =
                 [pending EXCEPT
                    !.packaging = SelectSeq(@, LAMBDA r : Includes(failedWorkers, r.name)),
                    !.machine = SelectSeq(@, LAMBDA r : Includes(failedWorkers, r.name))]
            /\ page' = "editing"
       ELSE /\ page' = IF batch = "returned" THEN "done" ELSE "editing"
            /\ UNCHANGED editedData
  /\ pending' = NoSubmission
  /\ UNCHANGED <<storeVars, matchVars>>

NextPage ==
  \/ UpdateHeader \/ UpdatePackagingRecord \/ UpdateMachineRecord
  \/ DeletePackagingRecord \/ DeleteMachineRecord
  \/ AddPackagingRecord \/ AddMachineRecord
  \/ HandleSave \/ CheckedExisting \/ ConfirmOverwrite \/ handleCancelOverwrite
  \/ SaveFinished \/ TaskStep \/ Settle

SpecPage == InitPage /\ [][NextPage]_vars

(***************************************************************************)
(* Specification of the work-time consolidation: one call on one slot list *)
(***************************************************************************)
MaxSlots == 3

T1030 == <<"1", "0", ":", "3", "0">>

\* the slots of a record as the page hands them over: two sessions with an
\* hour between them, a session that spans both, one that overlaps, one
\* that fills the hour, one written with a leading zero, and slots whose
\* time fields were left empty
SlotPool ==
  {[start |-> T0900, end |-> T1200], [start |-> T1300, end |-> T1700],
   [start |-> T0900, end |-> T1700], [start |-> T1030, end |-> T1300],
   [start |-> T1200, end |-> T1300],
   [start |-> <<"0", "9", ":", "0", "0">>, end |-> T1030],
   [start |-> T1300, end |-> Blank], [start |-> Blank, end |-> Blank]}

\* a record of w1 with the given slot list; start and end are those of
\* its first slot
SlotRecord(slots) ==
  [name |-> <<"w1">>,
   start |-> IF slots = <<>> THEN Blank ELSE slots[1].start,
   end |-> IF slots = <<>> THEN Blank ELSE slots[1].end,
   slots |-> slots, rest |-> NoRest, count |-> Blank]

\* the records of one worker handed to the row builders, each absent or
\* with up to MaxSlots slots, and the remarks cell of the existing row
RemarkInputs ==
  LET lists == SeqsUpTo({[start |-> T0900, end |-> T1200], [start |-> T1300, end |-> T1700]},
                        MaxSlots)
      records == {<<>>} \cup {<<SlotRecord(l)>> : l \in lists}
  IN [packaging : records, machine : records, existing : {Blank, <<"m", "e", "m", "o">>}]

InitTimes ==
  /\ \/ mKind = "consolidate" /\ mInput \in SeqsUpTo(SlotPool, MaxSlots)
     \/ mKind = "remarks" /\ mInput \in RemarkInputs
  /\ mCandidates = <<>>
  /\ mResult = <<>>
  /\ NoStore
  /\ NoPage

Consolidate ==
  /\ mKind = "consolidate"
  /\ mResult = <<>>
  /\ mResult' = <<calculateContinuousWorkTime(mInput)>>
  /\ UNCHANGED <<mKind, mInput, mCandidates>>
  /\ UNCHANGED <<storeVars, pageVars>>

\* the remarks cell (P) of the row data of both row builders
BuildRows ==
  /\ mKind = "remarks"
  /\ mResult = <<>>
  /\ LET header == [workDate |-> Date0621, product |-> Blank]
         existingData == [BlankRow EXCEPT ![16] = mInput.existing]
     IN mResult' =
          <<[merged |-> createMergedRowData(existingData, header,
                                            mInput.packaging, mInput.machine)[16],
             created |-> createNewRowData(header, mInput.packaging, mInput.machine)[16]]>>
  /\ UNCHANGED <<mKind, mInput, mCandidates>>
  /\ UNCHANGED <<storeVars, pageVars>>

NextTimes == Consolidate \/ BuildRows

SpecTimes == InitTimes /\ [][NextTimes]_vars

(***************************************************************************)
(* Specification of the date functions: one call on one input              *)
(***************************************************************************)
Years == {2023, 2024}

DaysInMonth(year, month) ==
  IF month = 2 THEN (IF year % 4 = 0 THEN 29 ELSE 28)
  ELSE IF month \in {4, 6, 9, 11} THEN 30 ELSE 31

\* newValue.format('YYYY/MM/DD') of the date picker
FormatDate(year, month, day) ==
  NatToStr(year) \o <<"/">> \o PadStart2(month) \o <<"/">> \o PadStart2(day)

\* every work date of the two years, as the confirmation page writes it
PeriodInputs ==
  UNION {UNION {{[employeeName |-> e, workDate |-> FormatDate(y, m, d)] :
                   e \in Employees, d \in 1..DaysInMonth(y, m)} :
                m \in 1..12} :
         y \in Years}

\* month and day fields with and without a leading zero
MonthTexts == {<<"6">>, <<"0", "6">>, <<"1", "2">>}

DayTexts == {<<"1">>, <<"0", "1">>, <<"2", "1">>}

YearText == <<"2", "0", "2", "4">>

\* date strings in the four formats normalizeDate knows, and strings in
\* none of them
DateStrings ==
  {m \o <<"/">> \o d : m \in MonthTexts, d \in DayTexts}
    \cup {YearText \o <<"/">> \o m \o <<"/">> \o d : m \in MonthTexts, d \in DayTexts}
    \cup {YearText \o <<"-">> \o m \o <<"-">> \o d : m \in MonthTexts, d \in DayTexts}
    \cup {m \o <<"/">> \o d \o <<"/">> \o YearText : m \in MonthTexts, d \in DayTexts}
    \cup {Blank, <<"6", "gatsu", "2", "1", "ka">>, <<"2", "0", "2", "4", ".", "6", ".", "2", "1">>,
          <<"6", "/", "2", "1", "/", "2", "4">>, <<"6", "-", "2", "1">>,
          <<" ", "6", "/", "2", "1">>, <<"0", "0", "6", "/", "2", "1">>}

\* what a cell of the date column may hold: nothing, the work date in the
\* M/D form, legacy spellings of it, another date
DateCells ==
  {Blank, <<"6", "/", "2", "1">>, <<"0", "6", "/", "2", "1">>,
   <<"2", "0", "2", "4", "/", "6", "/", "2", "1">>, <<"6", "/", "2", "2">>}

\* a sheet with any date cells, and the work date of a header
FindInputs ==
  [sheet : {[r \in 1..GridRows |-> DatedRow(column[r])] : column \in [1..GridRows -> DateCells]},
   workDate : {Date0621, Date0622, <<"6", "/", "2", "1">>}]

InitDates ==
  /\ \/ mKind = "period" /\ mInput \in PeriodInputs
     \/ mKind = "normalize" /\ mInput \in DateStrings
     \/ mKind = "findRow" /\ mInput \in FindInputs
  /\ mCandidates = <<>>
  /\ mResult = <<>>
  /\ NoStore
  /\ NoPage

\* findPersonalSheet up to the sheet listing: the Date of the work date,
\* its period, and the expected sheet name
ExpectSheet ==
  /\ mKind = "period"
  /\ mResult = <<>>
  /\ LET date == ParseDate(mInput.workDate)
         period == calculatePeriodYearMonth(date)
     IN mResult' = IF date.valid
                     THEN <<[period |-> period,
                             expectedSheetName |-> ExpectedSheetName(mInput.employeeName, period)]>>
                     ELSE <<[period |-> InvalidDate, expectedSheetName |-> Blank]>>
  /\ UNCHANGED <<mKind, mInput, mCandidates>>
  /\ UNCHANGED <<storeVars, pageVars>>

NormalizeDate ==
  /\ mKind = "normalize"
  /\ mResult = <<>>
  /\ mResult' = <<normalizeDate(mInput)>>
  /\ UNCHANGED <<mKind, mInput, mCandidates>>
  /\ UNCHANGED <<storeVars, pageVars>>

\* saveToPersonalSheetStructure up to the lookup: the work date is
\* normalized, then the date column is fetched and scanned
LookupRow ==
  /\ mKind = "findRow"
  /\ mResult = <<>>
  /\ \E result \in RetryResults :
       LET workDate == normalizeDate(mInput.workDate)
           existingRowIndex == findExistingRowByDate(mInput.sheet, workDate, result)
       IN mResult' = <<[row |-> existingRowIndex, failed |-> CallFailed(result)]>>
  /\ UNCHANGED <<mKind, mInput, mCandidates>>
  /\ UNCHANGED <<storeVars, pageVars>>

NextDates == ExpectSheet \/ NormalizeDate \/ LookupRow

SpecDates == InitDates /\ [][NextDates]_vars

(***************************************************************************)
(* Specification of the retry wrapper: one call, any answers of the store  *)
(***************************************************************************)
\* what the successive fetches of one call produce: the responses of the
\* store specifications, two more 5xx statuses, and network errors
RetryInputs ==
  [1..maxRetries -> Responses \cup {[net |-> FALSE, status |-> st] : st \in {503, 599}}]

InitRetry ==
  /\ mKind = "retry"
  /\ mInput \in RetryInputs
  /\ mCandidates = <<>>
  /\ mResult = <<>>
  /\ NoStore
  /\ NoPage

FetchWithRetry ==
  /\ mKind = "retry"
  /\ mResult = <<>>
  /\ mResult' = <<fetchWithRetry(mInput)>>
  /\ UNCHANGED <<mKind, mInput, mCandidates>>
  /\ UNCHANGED <<storeVars, pageVars>>

NextRetry == FetchWithRetry

SpecRetry == InitRetry /\ [][NextRetry]_vars

(***************************************************************************)
(* Specification of the resolvers: one call on one input                   *)
(***************************************************************************)
StringsUpTo(chars, n) == UNION {[1..k -> chars] : k \in 0..n}

PersonChars == {"a", "b", " "}

ProductChars == {"a", "A", "ka", "ga"}

\* the product list of the master data holds no product twice
NoRepeat(list) == \A i, j \in 1..Len(list) : list[i] = list[j] => i = j

\* the employee list of the master data (it may hold a name twice)
EmployeeLists == SeqsUpTo(PersonPool, MaxCands)

ProductLists == {l \in SeqsUpTo(ProductPool, MaxCands) : NoRepeat(l)}

InitMatch ==
  /\ mKind \in {"person", "product"}
  /\ mInput \in IF mKind = "person" THEN StringsUpTo(PersonChars, MaxStrLen)
                ELSE StringsUpTo(ProductChars, MaxProdLen)
  /\ mCandidates \in IF mKind = "person" THEN EmployeeLists ELSE ProductLists
  /\ mResult = <<>>
  /\ NoStore
  /\ NoPage

ResolvePerson ==
  /\ mKind = "person"
  /\ mResult = <<>>
  /\ mResult' = <<findBestMatch(mInput, mCandidates)>>
  /\ UNCHANGED <<mKind, mInput, mCandidates>>
  /\ UNCHANGED <<storeVars, pageVars>>

ResolveProduct ==
  /\ mKind = "product"
  /\ mResult = <<>>
  /\ mResult' = <<findBestProductMatch(mInput, mCandidates)>>
  /\ UNCHANGED <<mKind, mInput, mCandidates>>
  /\ UNCHANGED <<storeVars, pageVars>>

NextMatch == ResolvePerson \/ ResolveProduct

SpecMatch == InitMatch /\ [][NextMatch]_vars

(***************************************************************************)
(* Specification of the data corrector: one header or one record           *)
(***************************************************************************)
InitCorrect ==
  /\ mKind \in {"header", "packaging", "machine"}
  /\ mInput \in IF mKind = "header" THEN StringsUpTo(ProductChars, MaxProdLen)
                ELSE StringsUpTo(PersonChars, MaxStrLen)
  /\ mCandidates \in IF mKind = "header" THEN ProductLists ELSE EmployeeLists
  /\ mResult = <<>>
  /\ NoStore
  /\ NoPage

CorrectHeader ==
  /\ mKind = "header"
  /\ mResult = <<>>
  /\ mResult' = <<correctHeader(OcrHeader(Date0621, mInput), mCandidates)>>
  /\ UNCHANGED <<mKind, mInput, mCandidates>>
  /\ UNCHANGED <<storeVars, pageVars>>

CorrectPackaging ==
  /\ mKind = "packaging"
  /\ mResult = <<>>
  /\ mResult' = <<correctPackagingRecords(<<OcrRecord(mInput)>>, mCandidates)[1]>>
  /\ UNCHANGED <<mKind, mInput, mCandidates>>
  /\ UNCHANGED <<storeVars, pageVars>>

CorrectMachine ==
  /\ mKind = "machine"
  /\ mResult = <<>>
  /\ mResult' = <<correctMachineRecords(<<OcrRecord(mInput)>>, mCandidates)[1]>>
  /\ UNCHANGED <<mKind, mInput, mCandidates>>
  /\ UNCHANGED <<storeVars, pageVars>>

NextCorrect == CorrectHeader \/ CorrectPackaging \/ CorrectMachine

SpecCorrect == InitCorrect /\ [][NextCorrect]_vars

(***************************************************************************)
(* Properties of the reconciler and the batch orchestrator                 *)
(***************************************************************************)
SemanticCols == {3, 4, 5, 6, 8, 10, 11, 12, 14, 16}

\* the columns for which the submission supplies a non-empty value to the
\* task of worker name
Supplied(name) ==
  {c \in Cols : createNewRowData(ocrResult.header, FindRecord(ocrResult.packaging, name),
                                 FindRecord(ocrResult.machine, name))[c] # Blank}

SuppliedValue(name, c) ==
  createNewRowData(ocrResult.header, FindRecord(ocrResult.packaging, name),
                   FindRecord(ocrResult.machine, name))[c]

\* task i is in the lookup / read / write part of its work
Reconciling(i) == tasks[i].pc \in {"lookup", "read", "update", "nextRow", "append"}

\* the step is the accepted batch update of task i on the merge path
MergeWritten(i) ==
  /\ Len(tasks') = Len(tasks)
  /\ tasks[i].pc = "update"
  /\ tasks'[i].pc = "done"

Finished == batch \in {"returned", "thrown"}

\* C1: for any sequence of saveAll calls on one worker's sheet, the batch
\* updates accepted for one normalized work date all went to one row, and
\* a call that repeats the submission of the call before it leaves the
\* sheets as that call left them.
C1_OneRowPerDate ==
  /\ \A a \in written, b \in written : (a[1] = b[1] /\ a[2] = b[2]) => a[3] = b[3]
  /\ \A k \in 1..(Len(history) - 1) :
       (history[k].saved /\ history[k + 1].saved /\ history[k + 1].ocr = history[k].ocr)
         => history[k + 1].sheets = history[k].sheets

\* C2: no step changes a cell of the date column (column A) of any row of
\* any sheet, and the accepted batch update of a task that merges into an
\* existing row leaves each supplied non-empty produced count (packaging
\* in H, machine operation in N) in that row.
C2_DateColumnUntouched ==
  [][ /\ \A sn \in AllSheetNames, r \in 1..GridRows : sheets'[sn][r][1] = sheets[sn][r][1]
      /\ \A i \in 1..Len(tasks) :
           MergeWritten(i) =>
             \A c \in {8, 14} \cap Supplied(tasks[i].name) :
               sheets'[TaskSheet(tasks[i])][tasks[i].row][c] = SuppliedValue(tasks[i].name, c)
    ]_vars

\* a task merged a produced count into a dated row that held another count
C2_Witness ==
  \E i \in 1..Len(tasks) :
    /\ tasks[i].pc = "done" /\ tasks[i].wrote /\ tasks[i].row = 1
    /\ tasks[i].failedCall = "none"
    /\ sheets[TaskSheet(tasks[i])][1][1] = <<"6", "/", "2", "1">>
    /\ sheets[TaskSheet(tasks[i])][1][8] = <<"1", "2", "0">>

\* C3: the accepted batch update of a task that merges into an existing
\* row leaves every semantic cell of the row for which the submission
\* supplies no non-empty value as it was, whatever the outcome of the row
\* read that preceded it.
C3_UnsuppliedCellsKept ==
  [][ \A i \in 1..Len(tasks) :
        MergeWritten(i) =>
          \A c \in SemanticCols \ Supplied(tasks[i].name) :
            sheets'[TaskSheet(tasks[i])][tasks[i].row][c]
              = sheets[TaskSheet(tasks[i])][tasks[i].row][c]
    ]_vars

\* C4: when a call has launched its tasks, has finished, and every task
\* ended done or no_sheet, the call returned, failedWorkers holds exactly
\* the names of the submission whose sheet the store does not list, and
\* the row of every other task holds every value supplied for it.
C4_MissingSheetsReported ==
  (/\ Finished /\ tasks # <<>>
   /\ \A i \in 1..Len(tasks) : tasks[i].pc \in {"done", "no_sheet"})
  => /\ batch = "returned"
     /\ {failedWorkers[k] : k \in 1..Len(failedWorkers)}
          = {tasks[i].name : i \in {j \in 1..Len(tasks) : TaskSheet(tasks[j]) \notin sheetNames}}
     /\ \A i \in 1..Len(tasks) :
          TaskSheet(tasks[i]) \in sheetNames =>
            /\ tasks[i].row \in 1..GridRows
            /\ \A c \in Supplied(tasks[i].name) :
                 sheets[TaskSheet(tasks[i])][tasks[i].row][c] = SuppliedValue(tasks[i].name, c)

\* a returned call with one worker reported and another worker written
C4_Witness ==
  /\ batch = "returned"
  /\ failedWorkers # <<>>
  /\ \E i \in 1..Len(tasks) : tasks[i].pc = "done" /\ tasks[i].wrote

\* C5: a finished call in which a task ended in error has thrown, a call
\* that has thrown after launching tasks never has a task that is not in
\* a final state, and a returned call has no task in error.
C5_ThrowsAfterAllSettled ==
  /\ Finished => \A i \in 1..Len(tasks) : tasks[i].pc \in Terminal
  /\ (Finished /\ \E i \in 1..Len(tasks) : tasks[i].pc = "error") => batch = "thrown"
  /\ batch = "returned" => \A i \in 1..Len(tasks) : tasks[i].pc # "error"

\* a thrown call: one task in error, a sibling that completed its write
\* and one whose sheet was missing or that also completed
C5_Witness ==
  /\ batch = "thrown"
  /\ \E i, j \in 1..Len(tasks) :
       /\ i < j
       /\ tasks[i].pc = "error" /\ tasks[i].failedCall = "list"
       /\ tasks[j].pc = "done" /\ tasks[j].wrote

\* C6: a task one of whose store calls failed is in error, has sent no
\* batch update unless the failed call is the batch update itself, and the
\* call it belongs to throws.
C6_FailedCallIsHardError ==
  \A i \in 1..Len(tasks) :
    tasks[i].failedCall # "none" =>
      /\ tasks[i].pc = "error"
      /\ tasks[i].failedCall # "write" => ~tasks[i].wrote
      /\ Finished => batch = "thrown"

\* C8: no store call of a saveAll hands a 429 or 5xx response to its
\* caller before the attempt ceiling of the retry wrapper is reached.
C8_EveryCallRetried == unretried = {}

\* C9: the tasks of a call carry pairwise distinct names, one for each
\* name of the submission that is not blank, and failedWorkers holds no
\* name twice.
C9_OneTaskPerName ==
  /\ \A i, j \in 1..Len(tasks) : tasks[i].name = tasks[j].name => i = j
  /\ batch = "running" =>
       {tasks[i].name : i \in 1..Len(tasks)}
         = {AllWorkers(ocrResult)[k] : k \in 1..Len(AllWorkers(ocrResult))}
  /\ \A k, l \in 1..Len(failedWorkers) : failedWorkers[k] = failedWorkers[l] => k = l

\* C10: no two tasks of a call are in the lookup / read / write part of
\* their work on the same sheet at the same time.
C10_OneTaskPerSheet ==
  \A i, j \in 1..Len(tasks) :
    (i # j /\ Reconciling(i) /\ Reconciling(j)) => TaskSheet(tasks[i]) # TaskSheet(tasks[j])

\* C7: a resolver called with a non-empty input and a non-empty candidate
\* list returns a match that is not null and a kind that is not no_match.
C7_AlwaysCommits ==
  (mResult # <<>> /\ mInput # Blank /\ mCandidates # <<>>)
    => (~mResult[1].null /\ mResult[1].type # "no_match")

(***************************************************************************)
(* Properties of the data corrector                                        *)
(***************************************************************************)
\* C11: a corrected header carries productError when the confidence of the
\* product match is below 0.4, when its product is not in the product list
\* of the master data, and when the product field of the OCR result was
\* empty.
C11_ProductFlagged ==
  (mKind = "header" /\ mResult # <<>>)
    => LET h == mResult[1]
       IN ( \/ (h.productConfidence # <<>> /\ h.productConfidence[1] < LowConfidence)
            \/ h.product \notin {mCandidates[k] : k \in 1..Len(mCandidates)}
            \/ mInput = Blank )
          => h.productError

\* C12: a corrected record of either list whose OCR name is not empty
\* keeps that name with confidence 0, kind no_match and nameError when the
\* resolver has no match, and otherwise carries the match, confidence, kind
\* and isLastNameMatch of the resolver, with nameError exactly when the
\* confidence is below 0.4.
C12_RecordCorrection ==
  (mKind \in {"packaging", "machine"} /\ mResult # <<>> /\ mInput # Blank)
    => LET r == mResult[1]
           m == findBestMatch(mInput, mCandidates)
       IN IF m.null
            THEN /\ r.name = mInput
                 /\ r.confidence = <<0>>
                 /\ r.matchType = <<"no_match">>
                 /\ r.nameError
            ELSE /\ r.name = m.match
                 /\ r.confidence = <<m.confidence>>
                 /\ r.matchType = <<m.type>>
                 /\ r.isLastNameMatch = <<m.isLastNameMatch>>
                 /\ (r.nameError <=> m.confidence < LowConfidence)

\* a packaging record whose name had no match at all, flagged
C12_Witness ==
  /\ mKind = "packaging"
  /\ mResult # <<>>
  /\ mInput # Blank /\ mCandidates # <<>>
  /\ mResult[1].matchType = <<"no_match">>
  /\ mResult[1].nameError
  /\ mResult[1].name = mInput

(***************************************************************************)
(* Properties of the confirmation page                                     *)
(***************************************************************************)
NoFlag(data) ==
  /\ ~data.header.productError
  /\ \A k \in 1..Len(data.packaging) : ~data.packaging[k].nameError
  /\ \A k \in 1..Len(data.machine) : ~data.machine[k].nameError

\* a record list after a step: every record without a flag is a record the
\* list held before, or the record an add put in front, or stands where a
\* record without a flag stood, or holds a name of the master list
FlagsKept(old, new) ==
  \A k \in 1..Len(new) :
    \/ new[k].nameError
    \/ \E j \in 1..Len(old) : old[j] = new[k]
    \/ new[k] = newRecord
    \/ Len(old) = Len(new) /\ ~old[k].nameError
    \/ Includes(PageMasterData.employees, new[k].name)

\* C13: saveToPersonalSheets is never called on data whose header carries
\* productError or one of whose records carries nameError, and a step takes
\* a flag away only by leaving a member of the master list in the flagged
\* field
C13_SaveUnflagged ==
  /\ [](calls > 0 => NoFlag(ocrResult))
  /\ [][/\ (editedData.header.productError /\ ~editedData'.header.productError)
            => Includes(PageMasterData.products, editedData'.header.product)
         /\ FlagsKept(editedData.packaging, editedData'.packaging)
         /\ FlagsKept(editedData.machine, editedData'.machine)]_vars

\* a save has been requested on a record whose flag an edit had cleared
C13_Witness ==
  /\ calls > 0
  /\ \E k \in 1..Len(ocrResult.packaging) :
       /\ ocrResult.packaging[k].confidence # <<>>
       /\ ocrResult.packaging[k].confidence[1] < LowConfidence
       /\ ~ocrResult.packaging[k].nameError
(***************************************************************************)
(* Properties of the work-time consolidation                               *)
(***************************************************************************)
\* minutes since midnight of an H:MM or HH:MM text, 0 of an empty field
RefMinutes(t) ==
  IF t = Blank THEN 0
  ELSE LET colon == CHOOSE i \in 1..Len(t) : t[i] = ":"
       IN ParseInt(SubSeq(t, 1, colon - 1)) * 60 + ParseInt(SubSeq(t, colon + 1, Len(t)))

\* a number of minutes from 0 up as H:MM
RefTime(m) == NatToStr(m \div 60) \o <<":">> \o PadStart2(m % 60)

\* the orders of the slots of a list by start time
RefOrders(slots) ==
  {p \in [1..Len(slots) -> 1..Len(slots)] :
     /\ \A i, j \in 1..Len(slots) : p[i] = p[j] => i = j
     /\ \A i \in 1..(Len(slots) - 1) :
          RefMinutes(slots[p[i]].start) <= RefMinutes(slots[p[i + 1]].start)}

RECURSIVE RefGap(_, _, _)
\* the sum of the positive differences nextStart - currentEnd over the
\* first k slots in the order p
RefGap(slots, p, k) ==
  IF k <= 1 THEN 0
  ELSE LET d == RefMinutes(slots[p[k]].start) - RefMinutes(slots[p[k - 1]].end)
       IN RefGap(slots, p, k - 1) + (IF d > 0 THEN d ELSE 0)

\* the reference definition on a list of two or more slots
RefConsolidated(slots, result) ==
  \E p \in RefOrders(slots) :
    LET n == Len(slots)
        gap == RefGap(slots, p, n)
    IN /\ result.start = slots[p[1]].start
       /\ result.gap = gap
       /\ RefMinutes(slots[p[n]].end) - gap >= 0
       /\ result.end = RefTime(RefMinutes(slots[p[n]].end) - gap)

RefPassThrough(slots, result) ==
  IF slots = <<>>
    THEN result = [start |-> Blank, end |-> Blank, gap |-> 0]
    ELSE result = [start |-> slots[1].start, end |-> slots[1].end, gap |-> 0]

RefComplete(slots) ==
  SelectSeq(slots, LAMBDA sl : sl.start # Blank /\ sl.end # Blank)

RefYear(t) == DigitVal(t[1]) * 1000 + DigitVal(t[2]) * 100 + DigitVal(t[3]) * 10 + DigitVal(t[4])

RefMonth(t) == DigitVal(t[6]) * 10 + DigitVal(t[7])

RefDay(t) == DigitVal(t[9]) * 10 + DigitVal(t[10])

\* the period key of a work date
RefPeriod(t) ==
  IF RefDay(t) >= 21 THEN [year |-> RefYear(t), month |-> RefMonth(t)]
  ELSE IF RefMonth(t) = 1 THEN [year |-> RefYear(t) - 1, month |-> 12]
  ELSE [year |-> RefYear(t), month |-> RefMonth(t) - 1]

\* employeeName_YYYY<nen>MM<gatsu> of a period key
RefSheetName(employeeName, period) ==
  employeeName \o <<"_">>
    \o [k \in 1..4 |-> DigitChars[((period.year \div (10 ^ (4 - k))) % 10) + 1]]
    \o <<"nen">>
    \o <<DigitChars[(period.month \div 10) + 1], DigitChars[(period.month % 10) + 1]>>
    \o <<"gatsu">>

\* C15: a work date up to the 20th belongs to the period of the month
\* before (December of the year before for January), a later one to the
\* period of its own month; the month of the period is in 1..12 and the
\* sheet name is employeeName_YYYY<nen>MM<gatsu> of employee and period
C15_PeriodKey ==
  (mKind = "period" /\ mResult # <<>>) =>
    /\ mResult[1].period = RefPeriod(mInput.workDate)
    /\ mResult[1].period.month \in 1..12
    /\ mResult[1].expectedSheetName = RefSheetName(mInput.employeeName, mResult[1].period)

\* 20 January 2024 has given the period 2023/12 and its sheet name
C15_Witness ==
  /\ mKind = "period"
  /\ mInput = [employeeName |-> <<"w1">>, workDate |-> FormatDate(2024, 1, 20)]
  /\ mResult = <<[period |-> [year |-> 2023, month |-> 12],
                  expectedSheetName |->
                    <<"w1", "_", "2", "0", "2", "3", "nen", "1", "2", "gatsu">>]>>

\* C16: normalizing a normalized date string changes nothing
C16_NormalizeIdempotent ==
  (mKind = "normalize" /\ mResult # <<>>) => normalizeDate(mResult[1]) = mResult[1]

\* 2024/06/01 has been normalized to 6/1
C16_Witness ==
  /\ mKind = "normalize"
  /\ mInput = <<"2", "0", "2", "4", "/", "0", "6", "/", "0", "1">>
  /\ mResult = << <<"6", "/", "1">> >>
(***************************************************************************)
(* Properties of the person resolver                                       *)
(***************************************************************************)
\* the candidates that equal the trimmed input after trimming
ExactHits == {i \in 1..Len(mCandidates) : Trim(mCandidates[i]) = Trim(mInput)}

\* the text before the first space or full-width space of a name
RefLastName(name) ==
  IF \E i \in 1..Len(name) : name[i] \in {" ", "U+3000"}
    THEN SubSeq(name, 1, (CHOOSE i \in 1..Len(name) :
                            /\ name[i] \in {" ", "U+3000"}
                            /\ \A j \in 1..(i - 1) : name[j] \notin {" ", "U+3000"}) - 1)
    ELSE name

\* the candidates whose last name is the input
LastNameHits == {i \in 1..Len(mCandidates) : RefLastName(mCandidates[i]) = mInput}

\* the input holds a last name, white space and a given name
HasGivenName(name) ==
  \E i, j, k \in 1..Len(name) :
    i < j /\ j < k /\ name[i] \notin {" ", "U+3000"} /\ name[j] \in {" ", "U+3000"}
      /\ name[k] \notin {" ", "U+3000"}

\* C17: when some candidate equals the trimmed input after trimming,
\* findBestMatch returns the first such candidate with confidence 1.0 and
\* type exact, whatever last names earlier candidates have
C17_ExactFirst ==
  (mKind = "person" /\ mResult # <<>> /\ mInput # Blank /\ ExactHits # {}) =>
    /\ ~mResult[1].null
    /\ mResult[1].match = mCandidates[CHOOSE i \in ExactHits : \A j \in ExactHits : i <= j]
    /\ mResult[1].confidence = SimScale
    /\ mResult[1].type = "exact"

\* input a, candidates a b and a: the second candidate is returned as exact
C17_Witness ==
  /\ mKind = "person"
  /\ mInput = <<"a", " ">>
  /\ mCandidates = << <<"a", " ", "b">>, <<"a">> >>
  /\ mResult # <<>>
  /\ mResult[1].match = <<"a">>
  /\ mResult[1].type = "exact"

\* C18: for an input without white space that equals no trimmed candidate
\* and is the last name of some candidate, findBestMatch returns the first
\* such candidate with confidence 0.95, type lastname and isLastNameMatch;
\* for an input with a given name the type is never lastname
C18_LastNameTier ==
  (mKind = "person" /\ mResult # <<>>) =>
    /\ (/\ mInput # Blank
        /\ \A i \in 1..Len(mInput) : mInput[i] \notin {" ", "U+3000"}
        /\ ExactHits = {}
        /\ LastNameHits # {})
         => /\ ~mResult[1].null
            /\ mResult[1].match =
                 mCandidates[CHOOSE i \in LastNameHits : \A j \in LastNameHits : i <= j]
            /\ mResult[1].confidence * 100 = SimScale * 95
            /\ mResult[1].type = "lastname"
            /\ mResult[1].isLastNameMatch
    /\ HasGivenName(mInput) => mResult[1].type # "lastname"

\* input a, candidates b and a<full-width space>b: the second candidate is
\* returned as a last-name match
C18_Witness ==
  /\ mKind = "person"
  /\ mInput = <<"a">>
  /\ mCandidates = << <<"b">>, <<"a", "U+3000", "b">> >>
  /\ mResult # <<>>
  /\ mResult[1].match = <<"a", "U+3000", "b">>
  /\ mResult[1].type = "lastname"
  /\ mResult[1].isLastNameMatch
(***************************************************************************)
(* Properties of one worker task                                           *)
(***************************************************************************)
IsPrefix(s, t) == Len(s) <= Len(t) /\ SubSeq(t, 1, Len(s)) = s

\* C19: a task whose sheet name for the period of the work date is not
\* listed issues the listing only, ends as no_sheet once the listing has
\* answered and is reported in failedWorkers; no update goes to a sheet
\* other than the sheet of a task, so the copy, the sheet of the other
\* period and the sheets that are not listed stay as they were
C19_NoSheetNoCalls ==
  /\ \A i \in 1..Len(tasks) :
       LET t == tasks[i]
       IN TaskSheet(t) \notin sheetNames =>
            /\ t.pc \in {"resolve", "no_sheet", "error"}
            /\ IsPrefix(t.issued, <<"list">>)
            /\ ~t.wrote
            /\ t.row = 0
            /\ (t.issued = <<"list">> /\ t.failedCall = "none") => t.pc = "no_sheet"
            /\ t.pc = "error" => t.failedCall = "list"
            /\ (batch = "returned" /\ t.pc = "no_sheet") => Includes(failedWorkers, t.name)
  /\ \A w \in written :
       w[1] \in sheetNames /\ \E i \in 1..Len(tasks) : w[1] = TaskSheet(tasks[i])
  /\ sheets[CopySheet] = EmptySheet
  /\ sheets[OtherPeriodSheet] = EmptySheet
  /\ \A n \in AllSheetNames \ sheetNames : sheets[n] = EmptySheet

\* the sheet of w2 is not listed while its copy is: the task of w2 has
\* ended as no_sheet and is reported, the task of w1 has written
C19_Witness ==
  /\ SheetOf(<<"w2">>) \notin sheetNames
  /\ CopySheet \in sheetNames
  /\ batch = "returned"
  /\ Includes(failedWorkers, <<"w2">>)
  /\ \E i, j \in 1..Len(tasks) :
       /\ tasks[i].name = <<"w2">> /\ tasks[i].pc = "no_sheet"
       /\ tasks[j].name = <<"w1">> /\ tasks[j].pc = "done" /\ tasks[j].wrote

\* C20: the store calls a task has completed are, in order, the listing,
\* the date-column lookup, then the row read and the update or the
\* next-row read and the append; the row data is built and a write is
\* sent only after the lookup of the same task has completed
C20_StepOrder ==
  \A i \in 1..Len(tasks) :
    LET t == tasks[i]
    IN /\ \/ IsPrefix(t.issued, <<"list", "lookup", "read", "write">>)
          \/ IsPrefix(t.issued, <<"list", "lookup", "nextRow", "write">>)
       /\ t.rowData # BlankRow => IsPrefix(<<"list", "lookup">>, t.issued)
       /\ t.wrote => IsPrefix(<<"list", "lookup">>, t.issued)
       /\ t.pc \in {"read", "nextRow"} => t.issued = <<"list", "lookup">>
       /\ t.pc \in {"update", "append"} => Len(t.issued) = 3

\* one task has gone through listing, lookup, read and update while
\* another has gone through listing, lookup, next-row read and append
C20_Witness ==
  \E i, j \in 1..Len(tasks) :
    /\ tasks[i].issued = <<"list", "lookup", "read", "write">>
    /\ tasks[j].issued = <<"list", "lookup", "nextRow", "write">>

(***************************************************************************)
(* C21: the row the date lookup returns                                    *)
(***************************************************************************)
\* the rows of a sheet whose date cell is the string d
ExactRows(sheet, d) == {r \in 1..GridRows : sheet[r][1] = d}

\* the rows whose non-empty date cell normalizes to what d normalizes to
NormalRows(sheet, d) ==
  {r \in 1..GridRows : sheet[r][1] # Blank /\ normalizeDate(sheet[r][1]) = normalizeDate(d)}

TopRow(rows) == CHOOSE r \in rows : \A q \in rows : r <= q

\* C21: a lookup whose fetch succeeded returns the topmost row whose date
\* cell is the normalized work date as an exact string when there is one,
\* even below a row that matches only after normalization; otherwise the
\* topmost non-empty cell whose normalized value is the normalized work
\* date; otherwise no row (0)
C21_FindExistingRow ==
  (mKind = "findRow" /\ mResult # <<>> /\ ~mResult[1].failed) =>
    LET d == normalizeDate(mInput.workDate)
        exact == ExactRows(mInput.sheet, d)
        normal == NormalRows(mInput.sheet, d)
    IN mResult[1].row = IF exact # {} THEN TopRow(exact)
                        ELSE IF normal # {} THEN TopRow(normal)
                        ELSE 0

\* the lookup returned row 2, the exact 6/21, below a legacy 06/21 in row 1
C21_Witness ==
  /\ mKind = "findRow" /\ mResult # <<>> /\ ~mResult[1].failed
  /\ mInput.workDate = Date0621
  /\ mInput.sheet[1][1] = <<"0", "6", "/", "2", "1">>
  /\ mInput.sheet[2][1] = <<"6", "/", "2", "1">>
  /\ mResult[1].row = 2

(***************************************************************************)
(* C22: the fuzzy tier of findBestMatch                                    *)
(***************************************************************************)
\* the score of candidate i: the greater of the similarity of the whole
\* names and 0.9 times the similarity of the last names
FuzzyScore(i) ==
  Max(calculateSimilarity(Trim(mInput), mCandidates[i]),
      (9 * calculateSimilarity(RefLastName(Trim(mInput)), RefLastName(mCandidates[i]))) \div 10)

\* the candidates whose score no candidate exceeds
BestScored == {i \in 1..Len(mCandidates) : \A j \in 1..Len(mCandidates) : FuzzyScore(j) <= FuzzyScore(i)}

\* C22: when findBestMatch, called with a non-empty input and a non-empty
\* candidate list, returns neither an exact nor a last-name match, its
\* result has type fuzzy, its confidence is the greatest score of a
\* candidate and its match is the first candidate with that score,
\* however small the score is
C22_FuzzyBest ==
  (mKind = "person" /\ mResult # <<>> /\ mInput # Blank /\ mCandidates # <<>>
     /\ mResult[1].type \notin {"exact", "lastname"}) =>
    LET first == CHOOSE i \in BestScored : \A j \in BestScored : i <= j
    IN /\ mResult[1].type = "fuzzy"
       /\ ~mResult[1].null
       /\ mResult[1].confidence = FuzzyScore(first)
       /\ mResult[1].match = mCandidates[first]

(***************************************************************************)
(* C23: the three tiers of findBestProductMatch                            *)
(***************************************************************************)
\* the candidates equal to the trimmed input ignoring letter case
CaseHits ==
  {i \in 1..Len(mCandidates) : ToLowerCase(Trim(mCandidates[i])) = ToLowerCase(Trim(mInput))}

\* the score of product candidate i: the greater of the similarity of the
\* raw strings and that of the strings with voiced kana replaced
ProductScore(i) ==
  Max(calculateSimilarity(Trim(mInput), mCandidates[i]),
      calculateSimilarity(normalizeKatakana(Trim(mInput)), normalizeKatakana(mCandidates[i])))

BestProducts ==
  {i \in 1..Len(mCandidates) : \A j \in 1..Len(mCandidates) : ProductScore(j) <= ProductScore(i)}

\* C23: findBestProductMatch, called with a non-empty input and a
\* non-empty product list, returns the first trimmed-exact candidate with
\* confidence 1.0; failing that the first candidate equal ignoring case
\* with confidence 0.98; failing that the first candidate of the greatest
\* score with type fuzzy; and never a last-name result
C23_ProductTiers ==
  (mKind = "product" /\ mResult # <<>> /\ mInput # Blank /\ mCandidates # <<>>) =>
    LET firstExact == CHOOSE i \in ExactHits : \A j \in ExactHits : i <= j
        firstCase == CHOOSE i \in CaseHits : \A j \in CaseHits : i <= j
        firstBest == CHOOSE i \in BestProducts : \A j \in BestProducts : i <= j
    IN /\ mResult[1].type # "lastname"
       /\ ~mResult[1].isLastNameMatch
       /\ IF ExactHits # {}
            THEN /\ mResult[1].match = mCandidates[firstExact]
                 /\ mResult[1].confidence = SimScale
          ELSE IF CaseHits # {}
            THEN /\ mResult[1].match = mCandidates[firstCase]
                 /\ mResult[1].confidence = (98 * SimScale) \div 100
          ELSE /\ mResult[1].type = "fuzzy"
               /\ mResult[1].match = mCandidates[firstBest]
               /\ mResult[1].confidence = ProductScore(firstBest)

(***************************************************************************)
(* C24: what a batch update may change                                     *)
(***************************************************************************)
\* columns G, I, M and O
ReservedCols == {7, 9, 13, 15}

\* the step is the accepted batch update of task i, on either path
WriteAccepted(i) ==
  /\ Len(tasks') = Len(tasks)
  /\ tasks[i].pc \in {"update", "append"}
  /\ tasks'[i].pc = "done"

\* C24: the ranges of an accepted batch update, on the merge path and on
\* the create path, name none of the reserved columns G, I, M, O, and the
\* update changes cells of one row of one sheet only, none of them
\* outside the semantic fields (product, start / end, break, produced
\* count, remarks)
C24_OnlySemanticCellsChange ==
  [][ \A i \in 1..Len(tasks) :
        WriteAccepted(i) =>
          LET t == tasks[i]
              ranges == IF t.pc = "update" THEN UpdateRanges(t.rowData)
                        ELSE AppendRanges(t.rowData)
          IN /\ ranges \cap ReservedCols = {}
             /\ \A sn \in AllSheetNames, r \in 1..GridRows, c \in Cols :
                  sheets'[sn][r][c] # sheets[sn][r][c] =>
                    /\ sn = TaskSheet(t)
                    /\ r = t.row
                    /\ c \in SemanticCols
    ]_vars

(***************************************************************************)
(* C25: the remarks of a record with several slots                         *)
(***************************************************************************)
RECURSIVE RefSlotList(_)
\* start-end of every slot in the order of the list, parted by ", "
RefSlotList(slots) ==
  LET last == slots[Len(slots)]
      text == last.start \o <<"-">> \o last.end
  IN IF Len(slots) = 1 THEN text
     ELSE RefSlotList(SubSeq(slots, 1, Len(slots) - 1)) \o <<", ">> \o text

\* the optional record has more than one slot
MultiSlot(record) == record # <<>> /\ Len(record[1].slots) > 1

\* C25: the row builders assign the remarks cell exactly when the
\* packaging or the machine-operation record of the worker has more than
\* one slot; the text is then one fragment per such work type, the label
\* followed by start-end of every slot in input order, packaging before
\* machine operation, joined by " | "; otherwise the merged row keeps the
\* remarks cell of the existing row and the new row has none
C25_Remarks ==
  (mKind = "remarks" /\ mResult # <<>>) =>
    LET fragP == <<"packaging: ">> \o RefSlotList(mInput.packaging[1].slots)
        fragM == <<"machine: ">> \o RefSlotList(mInput.machine[1].slots)
        text == IF MultiSlot(mInput.packaging) /\ MultiSlot(mInput.machine)
                  THEN fragP \o <<" | ">> \o fragM
                ELSE IF MultiSlot(mInput.packaging) THEN fragP ELSE fragM
    IN IF MultiSlot(mInput.packaging) \/ MultiSlot(mInput.machine)
         THEN mResult[1].merged = text /\ mResult[1].created = text
         ELSE mResult[1].merged = mInput.existing /\ mResult[1].created = Blank

\* both records have two slots, the packaging slots listed latest first,
\* and the remark replaces an existing one
C25_Witness ==
  /\ mKind = "remarks" /\ mResult # <<>>
  /\ mInput.existing # Blank
  /\ MultiSlot(mInput.packaging) /\ MultiSlot(mInput.machine)
  /\ mInput.packaging[1].slots[1].start = T1300
  /\ mInput.packaging[1].slots[2].start = T0900
  /\ mResult[1].merged =
       <<"packaging: ", "1", "3", ":", "0", "0", "-", "1", "7", ":", "0", "0", ", ",
         "9", ":", "0", "0", "-", "1", "2", ":", "0", "0", " | ">>
         \o <<"machine: ">> \o RefSlotList(mInput.machine[1].slots)

(***************************************************************************)
(* C26, C27: the retry wrapper                                             *)
(***************************************************************************)
\* the fetch answered with 429 or with a 5xx status
Transient(r) == ~r.net /\ (r.status = 429 \/ r.status \in 500..599)

Retried(k) == k < maxRetries /\ (mInput[k].net \/ Transient(mInput[k]))

\* C27: the wrapper makes at most maxRetries fetches; it stops at the first
\* attempt answered with a status that is neither 429 nor 5xx, and at the
\* attempt ceiling; the caller gets the outcome of the last fetch made: its
\* response, or its network error thrown
C27_BoundedAttempts ==
  (mKind = "retry" /\ mResult # <<>>) =>
    LET n == mResult[1].attempts
    IN /\ n \in 1..maxRetries
       /\ \A k \in 1..(n - 1) : Retried(k)
       /\ ~Retried(n)
       /\ mResult[1].thrown = mInput[n].net
       /\ ~mResult[1].thrown => mResult[1].response = mInput[n]

\* a network error, a 503 and a third fetch that fails: thrown after three
\* fetches
C27_Witness ==
  /\ mKind = "retry" /\ mResult # <<>>
  /\ mInput[1].net /\ mInput[2].status = 503 /\ mInput[3].net
  /\ mResult[1].attempts = maxRetries
  /\ mResult[1].thrown

(***************************************************************************)
(* C28: every record is reconciled once                                    *)
(***************************************************************************)
\* the tasks that have reconciled record k of a list of the submission: a
\* finished task takes the first record of the list that bears its name
Reconcilers(list, k) ==
  {i \in 1..Len(tasks) :
     /\ tasks[i].pc = "done"
     /\ tasks[i].name = list[k].name
     /\ \A j \in 1..(k - 1) : list[j].name # list[k].name}

\* C28: when a call has returned, every sheet of a worker of the
\* submission exists and no store call of the call failed, every record
\* with a name, of either list, has been reconciled by exactly one task
\* and its produced count stands in the row of that task (packaging in H,
\* machine operation in N)
C28_EachRecordOnce ==
  (/\ batch = "returned" /\ tasks # <<>>
   /\ \A i \in 1..Len(tasks) :
        TaskSheet(tasks[i]) \in sheetNames /\ tasks[i].failedCall = "none")
  => /\ \A k \in 1..Len(ocrResult.packaging) :
          Trim(ocrResult.packaging[k].name) # Blank =>
            /\ Cardinality(Reconcilers(ocrResult.packaging, k)) = 1
            /\ \A i \in Reconcilers(ocrResult.packaging, k) :
                 sheets[TaskSheet(tasks[i])][tasks[i].row][8] = ocrResult.packaging[k].count
     /\ \A k \in 1..Len(ocrResult.machine) :
          Trim(ocrResult.machine[k].name) # Blank =>
            /\ Cardinality(Reconcilers(ocrResult.machine, k)) = 1
            /\ \A i \in Reconcilers(ocrResult.machine, k) :
                 sheets[TaskSheet(tasks[i])][tasks[i].row][14] = ocrResult.machine[k].count

(***************************************************************************)
(* C29: successive creates on one sheet                                    *)
(***************************************************************************)
\* C29: the accepted batch update of a task on the create path, none of
\* whose store calls failed, goes to a row to which no earlier batch
\* update for another work date went on the same sheet
C29_CreatesApart ==
  [][ \A i \in 1..Len(tasks) :
        (WriteAccepted(i) /\ tasks[i].pc = "append" /\ tasks[i].failedCall = "none") =>
          \A w \in written :
            (w[1] = TaskSheet(tasks[i]) /\ w[2] # normalizeDate(ocrResult.header.workDate))
              => w[3] # tasks[i].row
    ]_vars

(***************************************************************************)
(* C30: the consolidated interval of separate slots                        *)
(***************************************************************************)
\* every slot has both fields and starts before it ends, and no two slots
\* of the list overlap (a slot may start when another ends)
Separate(slots) ==
  /\ \A i \in 1..Len(slots) :
       /\ slots[i].start # Blank /\ slots[i].end # Blank
       /\ RefMinutes(slots[i].start) < RefMinutes(slots[i].end)
  /\ \A i, j \in 1..Len(slots) :
       i # j => \/ RefMinutes(slots[i].end) <= RefMinutes(slots[j].start)
                \/ RefMinutes(slots[j].end) <= RefMinutes(slots[i].start)

RECURSIVE RefWorked(_)
\* the sum of end - start over the slots, in minutes
RefWorked(slots) ==
  IF slots = <<>> THEN 0
  ELSE RefMinutes(slots[1].end) - RefMinutes(slots[1].start) + RefWorked(Tail(slots))

\* the lists that hold the slots of a list in another order
Reordered(slots) ==
  {[i \in 1..Len(slots) |-> slots[p[i]]] :
     p \in {q \in [1..Len(slots) -> 1..Len(slots)] :
              \A i, j \in 1..Len(slots) : q[i] = q[j] => i = j}}

\* C30: for a list of two or more slots, each starting before it ends and
\* no two overlapping, the consolidated interval has start <= end, its
\* length in minutes is the sum of the lengths of the slots, and the
\* result is the same for the slots listed in any other order
C30_SumOfDurations ==
  (mKind = "consolidate" /\ mResult # <<>> /\ Len(mInput) >= 2 /\ Separate(mInput)) =>
    /\ RefMinutes(mResult[1].start) <= RefMinutes(mResult[1].end)
    /\ RefMinutes(mResult[1].end) - RefMinutes(mResult[1].start) = RefWorked(mInput)
    /\ \A other \in Reordered(mInput) : calculateContinuousWorkTime(other) = mResult[1]

\* 13:00-17:00, 09:00-10:30 and 12:00-13:00 have given 09:00 to 15:30
C30_Witness ==
  /\ mKind = "consolidate"
  /\ mInput = <<[start |-> T1300, end |-> T1700],
                [start |-> <<"0", "9", ":", "0", "0">>, end |-> T1030],
                [start |-> T1200, end |-> T1300]>>
  /\ mResult # <<>>
  /\ mResult[1].start = <<"0", "9", ":", "0", "0">>
  /\ mResult[1].end = <<"1", "5", ":", "3", "0">>
====
